---- MODULE Spec2Model ----
(***************************************************************************)
(* A model of the hive orchestrator: the worker registry file              *)
(* (.hive/workers.json), the locked JSON file helper, the tracker          *)
(* adapter, the worktree manager and the Ralph loop of hive/commands/      *)
(* work.py.  Every external command (bd, git, tmux) is a step whose        *)
(* outcome is chosen among the outcomes the command can have.              *)
(***************************************************************************)
EXTENDS Integers, Sequences, FiniteSets, TLC

\* ---------------------------------------------------------------- bounds

MaxClock == 2        \* timestamps run over 1..MaxClock
MaxOps == 2          \* registry operations one worker issues in SpecReg

Workers == {"worker-1", "worker-2"}
Tasks == {"t1", "t2"}
NoTask == "none"

Statuses == {"open", "in_progress", "blocked", "too_big", "failed", "done", "closed"}

VARIABLES
    pc,          \* pc[w]: the place of worker w in the code
    task_id,     \* task_id[w]: the task worker w holds (NoTask: none)
    tstatus,     \* the tracker: tstatus[t], the status of task t
    tdeps,       \* the tracker: tdeps[t], the tasks t depends on
    regFile,     \* the file .hive/workers.json
    regData,     \* regData[w]: the dict `data` of the registry function w runs
    clock,       \* datetime.now()
    expected,    \* history: expected[w], w's last completed call was register
    opsDone,     \* history: registry calls worker w has completed (SpecReg)
    readKind,    \* readKind[r]: the kind of content reader r got from its read ("none": not reading)
    wtDir,       \* git: the names worker-task whose worktree directory exists
    wtTracked,   \* git: the names worker-task whose worktree git tracks
    wtWork,      \* git: the names worker-task whose worktree holds files an agent wrote
    branches,    \* git: the tasks t whose branch task-t exists
    merged,      \* git: the tasks whose branch is merged into main
    sessions,    \* tmux: the names worker-task whose session hive-w-t is alive
    requested,   \* history: requested[w], the statuses this iteration asked the tracker to set
    outcome,     \* outcome[w]: the local `outcome` of the iteration
    ret,         \* ret[w]: what the last iteration returned
    elapsed,     \* elapsed[w]: time.time() - start_time
    spawned,     \* history: spawned[w], this iteration started its session
    supervised,  \* history: supervised[w], this iteration entered the poll loop
    killIssued,  \* history: killIssued[w], a kill-session was issued after the spawn
    mergeOk,     \* history: mergeOk[w], merge_branch returned True
    lkPath,      \* locked file: the inode the path names (0: no file)
    lkContent,   \* locked file: lkContent[i], the JSON object in inode i
    lkFd,        \* locked file: lkFd[w], the inode writer w has open (0: none)
    lkTemp,      \* locked file: lkTemp[w], the inode of w's temp file (0: none)
    lkData,      \* locked file: lkData[w], the dict the block of w works on
    lkDone,      \* locked file: lkDone[w], the blocks writer w has completed
    lkMode,      \* locked file: lkMode[w], the mode writer w passes, "w" or "r+"
    lkPrior,     \* history: lkPrior[w], the file at the path when w entered its block
    answers,     \* the answers of bd that get_next_task is applied to in SpecScan
    current_status, \* current_status[w]: the local `current_status`, what get_task_status returned last
    calls,       \* history: calls[w], the sleeps and the merge commands the iteration issued
    before,      \* history: the last call of the worktree manager in SpecTree, SpecCycle and
                 \* SpecClean: the git state it found, its force flag, the calls made so far (log),
                 \* and what cleanup_stale_worktrees returned and whether it pruned at the end
    worker_ids,  \* worker_ids[w]: the worker id process w runs under
    driver,      \* work_cmd: its place, --parallel, the list `processes`, the joins done
    daemon       \* hive daemon start: the PID file, each invocation's place and --foreground

lockVars == <<lkPath, lkContent, lkFd, lkTemp, lkData, lkDone, lkMode, lkPrior>>
gitVars == <<wtDir, wtTracked, branches, merged, wtWork>>
loopLocal == <<outcome, ret, elapsed, spawned, supervised, killIssued, mergeOk, current_status, calls>>
loopVars == <<gitVars, sessions, requested, loopLocal>>
regVars == <<regFile, regData, clock, expected, opsDone, readKind>>
trackerVars == <<tstatus, tdeps>>
vars == <<pc, task_id, tstatus, tdeps, regFile, regData, clock, expected, opsDone, readKind,
          wtDir, wtTracked, wtWork, branches, merged, sessions, requested,
          outcome, ret, elapsed, spawned, supervised, killIssued, mergeOk,
          lkPath, lkContent, lkFd, lkTemp, lkData, lkDone, lkMode, lkPrior, answers, current_status,
          calls, before,
          worker_ids, driver, daemon>>

\* ------------------------------------------------ the tracker adapter

\* What `bd show <id> --json` answers for task t: the command fails, prints
\* something that is no JSON, prints an empty array, prints the task as one
\* object, or prints an array holding the task.  The task it prints is the
\* tracker's: its status and the statuses of its dependencies.
ShowKinds == {"fail", "garbage", "empty", "object", "array"}

ShowResponse(t, kind) ==
    [kind |-> kind, status |-> tstatus[t], dependencies |-> {tstatus[d] : d \in tdeps[t]}]

\* The sequences without repetition over the set S
SeqsOver(S) ==
    {s \in UNION {[1..n -> S] : n \in 0..Cardinality(S)} :
        \A i, j \in 1..Len(s) : i # j => s[i] # s[j]}

\* What `bd list --ready --json` answers: the command fails, prints no JSON,
\* or prints open tasks in the tracker's order, each with its id and its
\* dependency_count; the tracker may or may not have filtered on the
\* statuses of the dependencies.
ListResponses ==
    {[kind |-> "fail", tasks |-> <<>>], [kind |-> "garbage", tasks |-> <<>>]}
    \cup {[kind |-> "tasks",
           tasks |-> [i \in 1..Len(s) |->
                        [id |-> s[i], dependency_count |-> Cardinality(tdeps[s[i]])]]] :
            s \in SeqsOver({t \in Tasks : tstatus[t] = "open"})}

\* get_next_task, line 83
all_closed_any(dependencies) == \A st \in dependencies : st # "open"

all_closed(dependencies) == \A st \in dependencies : st = "closed"

\* a scan that looks at one task only
scan_first_only(tasks, show, i) ==
    IF i > Len(tasks) THEN NoTask
    ELSE IF tasks[i].dependency_count = 0 THEN tasks[i].id
    ELSE NoTask

\* get_next_task, lines 59-87: the scan from the task at index i on; the
\* id of the task returned, NoTask for None
RECURSIVE ScanTasks(_, _, _)
ScanTasks(tasks, show, i) ==
    IF i > Len(tasks) THEN NoTask
    ELSE LET task == tasks[i]
         IN  IF task.dependency_count = 0 THEN task.id
             ELSE IF task.id = NoTask THEN ScanTasks(tasks, show, i + 1)
             ELSE IF show[task.id].kind # "array" THEN ScanTasks(tasks, show, i + 1)
             ELSE IF all_closed(show[task.id].dependencies) THEN task.id
             ELSE ScanTasks(tasks, show, i + 1)

\* get_next_task, lines 49-92
get_next_task(list, show) ==
    IF list.kind # "tasks" THEN NoTask
    ELSE IF list.tasks = <<>> THEN NoTask
    ELSE ScanTasks(list.tasks, show, 1)

\* no answers: the value of answers where get_next_task is not applied to it
NoAnswers ==
    [list |-> [kind |-> "none", tasks |-> <<>>],
     show |-> [t \in Tasks |-> [kind |-> "none", status |-> "none", dependencies |-> {}]]]

\* ralph_loop_iteration, lines 260-268: the worker asks for the next task
GetNextTask(w, found, nothing) ==
    /\ pc[w] = "start"
    /\ \E list \in ListResponses, kinds \in [Tasks -> ShowKinds] :
          LET show == [t \in Tasks |-> ShowResponse(t, kinds[t])]
              task == get_next_task(list, show)
          IN  /\ task_id' = [task_id EXCEPT ![w] = task]
              /\ pc' = [pc EXCEPT ![w] = IF task = NoTask THEN nothing ELSE found]
    /\ UNCHANGED <<trackerVars, loopVars, regVars, lockVars, answers, worker_ids, driver, daemon, before>>

\* ------------------------------------------------- the registry file

\* The content of workers.json: kind "missing" (no file), "empty" (opened
\* with mode "w" and not yet written: zero bytes), or "json" (a complete
\* dump of {"workers": [...], "last_updated": ...}).  last_updated 0 is None.
FileMissing == [kind |-> "missing", workers |-> <<>>, last_updated |-> 0]
FileEmpty == [kind |-> "empty", workers |-> <<>>, last_updated |-> 0]
JsonFile(data) == [kind |-> "json", workers |-> data.workers, last_updated |-> data.last_updated]

\* hive init: {"workers": [], "last_updated": None}
InitRegistry == [kind |-> "json", workers |-> <<>>, last_updated |-> 0]

\* data = {"workers": [], "last_updated": None}
FreshData == [workers |-> <<>>, last_updated |-> 0]

\* with open(workers_path) as f: data = json.load(f) succeeds
Parsable(file) == file.kind = "json"

LoadData(file) == [workers |-> file.workers, last_updated |-> file.last_updated]

\* worker_entry of register_worker; pid, tmux_session and worktree are
\* functions of id and current_task and are not kept apart.
worker_entry(worker_id, task, now) ==
    [id |-> worker_id, current_task |-> task, started_at |-> now, last_activity |-> now]

\* a filter that drops nothing
WithoutWorker_none(workers, worker_id) == workers

\* [w for w in workers if w.get("id") != worker_id]
WithoutWorker(workers, worker_id) == SelectSeq(workers, LAMBDA w : w.id # worker_id)

\* register_worker, lines 170-193: the dict it will write
RegisterData(file, worker_id, task, now) ==
    LET data == IF Parsable(file) THEN LoadData(file) ELSE FreshData
    IN  [workers |-> Append(WithoutWorker(data.workers, worker_id),
                            worker_entry(worker_id, task, now)),
         last_updated |-> now]

\* unregister_worker, lines 211-215
UnregisterData(file, worker_id, now) ==
    [workers |-> WithoutWorker(LoadData(file).workers, worker_id), last_updated |-> now]

\* the first index of a record of worker_id, 0 when there is none
FirstIndex(workers, worker_id) ==
    IF \E i \in 1..Len(workers) : workers[i].id = worker_id
    THEN CHOOSE i \in 1..Len(workers) :
            /\ workers[i].id = worker_id
            /\ \A j \in 1..(i - 1) : workers[j].id # worker_id
    ELSE 0

\* update_worker_activity, lines 233-239
TouchData(file, worker_id, now) ==
    LET workers == LoadData(file).workers
        i == FirstIndex(workers, worker_id)
    IN  [workers |-> IF i = 0 THEN workers
                     ELSE [workers EXCEPT ![i].last_activity = now],
         last_updated |-> now]

HasRecord(file, worker_id) ==
    \E i \in 1..Len(file.workers) : file.workers[i].id = worker_id

\* open(workers_path, "w"): creates the file or truncates it to zero bytes
OpenForWrite(file) == FileEmpty

Readers == Workers \cup {"daemon"}

NoteRead(reader) == readKind' = [readKind EXCEPT ![reader] = regFile.kind]

\* the registry function returns: its local `data` is gone
Leave(w) == regData' = [regData EXCEPT ![w] = FreshData]

\* register_worker, lines 170-193
RegisterRead(w) ==
    /\ pc[w] = "register_read"
    /\ regData' = [regData EXCEPT ![w] = RegisterData(regFile, w, task_id[w], clock)]
    /\ NoteRead(w)
    /\ pc' = [pc EXCEPT ![w] = "register_open"]
    /\ UNCHANGED <<task_id, trackerVars, loopVars, regFile, clock, expected, opsDone, lockVars, answers, worker_ids, driver, daemon, before>>

\* register_worker, line 196
RegisterOpen(w) ==
    /\ pc[w] = "register_open"
    /\ regFile' = OpenForWrite(regFile)
    /\ pc' = [pc EXCEPT ![w] = "register_dump"]
    /\ UNCHANGED <<task_id, trackerVars, loopVars, regData, clock, expected, opsDone, readKind, lockVars, answers, worker_ids, driver, daemon, before>>

\* register_worker, line 197, and the return to the caller at `next`
RegisterDump(w, next) ==
    /\ pc[w] = "register_dump"
    /\ regFile' = JsonFile(regData[w])
    /\ expected' = [expected EXCEPT ![w] = TRUE]
    /\ pc' = [pc EXCEPT ![w] = next]
    /\ Leave(w)
    /\ UNCHANGED <<task_id, trackerVars, loopVars, clock, readKind, opsDone, lockVars, answers, worker_ids, driver, daemon, before>>

\* unregister_worker, lines 204-215
UnregisterRead(w, next) ==
    /\ pc[w] = "unregister_read"
    /\ NoteRead(w)
    /\ IF Parsable(regFile)
       THEN /\ regData' = [regData EXCEPT ![w] = UnregisterData(regFile, w, clock)]
            /\ pc' = [pc EXCEPT ![w] = "unregister_open"]
            /\ UNCHANGED expected
       ELSE /\ pc' = [pc EXCEPT ![w] = next]
            /\ expected' = [expected EXCEPT ![w] = FALSE]
            /\ UNCHANGED regData
    /\ UNCHANGED <<task_id, trackerVars, loopVars, regFile, clock, opsDone, lockVars, answers, worker_ids, driver, daemon, before>>

\* unregister_worker, line 218
UnregisterOpen(w) ==
    /\ pc[w] = "unregister_open"
    /\ regFile' = OpenForWrite(regFile)
    /\ pc' = [pc EXCEPT ![w] = "unregister_dump"]
    /\ UNCHANGED <<task_id, trackerVars, loopVars, regData, clock, expected, opsDone, readKind, lockVars, answers, worker_ids, driver, daemon, before>>

\* unregister_worker, line 219
UnregisterDump(w, next) ==
    /\ pc[w] = "unregister_dump"
    /\ regFile' = JsonFile(regData[w])
    /\ expected' = [expected EXCEPT ![w] = FALSE]
    /\ pc' = [pc EXCEPT ![w] = next]
    /\ Leave(w)
    /\ UNCHANGED <<task_id, trackerVars, loopVars, clock, readKind, opsDone, lockVars, answers, worker_ids, driver, daemon, before>>

\* update_worker_activity, lines 226-239
TouchRead(w, next) ==
    /\ pc[w] = "touch_read"
    /\ NoteRead(w)
    /\ IF Parsable(regFile)
       THEN /\ regData' = [regData EXCEPT ![w] = TouchData(regFile, w, clock)]
            /\ pc' = [pc EXCEPT ![w] = "touch_open"]
       ELSE /\ pc' = [pc EXCEPT ![w] = next]
            /\ UNCHANGED regData
    /\ UNCHANGED <<task_id, trackerVars, loopVars, regFile, clock, expected, opsDone, lockVars, answers, worker_ids, driver, daemon, before>>

\* update_worker_activity, line 242
TouchOpen(w) ==
    /\ pc[w] = "touch_open"
    /\ regFile' = OpenForWrite(regFile)
    /\ pc' = [pc EXCEPT ![w] = "touch_dump"]
    /\ UNCHANGED <<task_id, trackerVars, loopVars, regData, clock, expected, opsDone, readKind, lockVars, answers, worker_ids, driver, daemon, before>>

\* update_worker_activity, line 243
TouchDump(w, next) ==
    /\ pc[w] = "touch_dump"
    /\ regFile' = JsonFile(regData[w])
    /\ pc' = [pc EXCEPT ![w] = next]
    /\ Leave(w)
    /\ UNCHANGED <<task_id, trackerVars, loopVars, clock, expected, readKind, opsDone, lockVars, answers, worker_ids, driver, daemon, before>>

\* locked_json_file(path, "r", default) up to the yield: the data the
\* block sees.  An empty or unparsable file yields the default.
LockedRead(file, default) ==
    IF file.kind = "json" THEN LoadData(file) ELSE default

\* daemon.get_workers: the list of registered workers
get_workers(file) ==
    IF file.kind = "missing" THEN <<>>
    ELSE LockedRead(file, FreshData).workers

\* The daemon's check reads the registry (check_stuck_workers -> get_workers).
DaemonRead ==
    /\ NoteRead("daemon")
    /\ UNCHANGED <<pc, task_id, trackerVars, loopVars, regFile, regData, clock, expected, opsDone, lockVars, answers, worker_ids, driver, daemon, before>>

\* time passes
Tick ==
    /\ clock < MaxClock
    /\ clock' = clock + 1
    /\ UNCHANGED <<pc, task_id, trackerVars, loopVars, regFile, regData, expected, opsDone, readKind, lockVars, answers, worker_ids, driver, daemon, before>>

\* ------------------------------------------- utils.locked_json_file

\* The file system under the path of a locked JSON file: the path names an
\* inode; an open file and a temp file are inodes too.  A JSON object with
\* one counter per writer is a function from the writers to numbers, 0 for
\* a key that is absent (the test's data.get(worker_key, 0)).
Iterations == 2
Inodes == 1..(2 * Cardinality(Workers) + 1)
NoKeys == [w \in Workers |-> 0]

\* no file at the path, or no block entered
NoPrior == [exists |-> FALSE, content |-> NoKeys]

\* the writers that hold the flock they asked for in line 77
HoldsLock(w) == pc[w] \in {"lk_body", "lk_temp", "lk_replace", "lk_unlock"}

Referenced(i, path, fd, temp) ==
    i = path \/ \E w \in Workers : fd[w] = i \/ temp[w] = i

\* an inode nothing names and nobody has open
FreshInode == CHOOSE i \in Inodes : ~Referenced(i, lkPath, lkFd, lkTemp)

\* the storage of inodes that are no longer referenced is freed
Collect(content, path, fd, temp) ==
    [i \in Inodes |-> IF Referenced(i, path, fd, temp) THEN content[i] ELSE NoKeys]

\* locked_json_file, lines 52-70, modes "w" and "r+": does the path exist
LkEnter(w) ==
    /\ pc[w] = "lk_enter"
    /\ pc' = [pc EXCEPT ![w] = IF lkPath = 0 THEN "lk_create" ELSE "lk_open"]
    /\ lkPrior' = [lkPrior EXCEPT ![w] =
                      IF lkPath = 0 THEN NoPrior
                      ELSE [exists |-> TRUE, content |-> lkContent[lkPath]]]
    /\ UNCHANGED <<task_id, trackerVars, regVars, loopVars, lkPath, lkContent, lkFd, lkTemp,
                   lkData, lkDone, lkMode, answers, worker_ids, driver, daemon, before>>

\* locked_json_file, line 71: path.write_text("{}") creates the file, or
\* truncates the file that another writer has put there since line 70
LkCreate(w) ==
    /\ pc[w] = "lk_create"
    /\ IF lkPath = 0
       THEN /\ lkPath' = FreshInode
            /\ lkContent' = [lkContent EXCEPT ![FreshInode] = NoKeys]
       ELSE /\ lkContent' = [lkContent EXCEPT ![lkPath] = NoKeys]
            /\ UNCHANGED lkPath
    /\ pc' = [pc EXCEPT ![w] = "lk_open"]
    /\ UNCHANGED <<task_id, trackerVars, regVars, loopVars, lkFd, lkTemp, lkData, lkDone,
                   lkMode, lkPrior, answers, worker_ids, driver, daemon, before>>

\* locked_json_file, lines 67 and 73: open(path, file_mode) opens the inode
\* at the path; file_mode is "r+" for mode "r+" and "w+" for mode "w", and
\* "w+" truncates the file to zero bytes
LkOpen(w) ==
    /\ pc[w] = "lk_open"
    /\ lkFd' = [lkFd EXCEPT ![w] = lkPath]
    /\ lkContent' = IF lkMode[w] = "w" /\ lkPath # 0
                    THEN [lkContent EXCEPT ![lkPath] = NoKeys]
                    ELSE lkContent
    /\ pc' = [pc EXCEPT ![w] = "lk_flock"]
    /\ UNCHANGED <<task_id, trackerVars, regVars, loopVars, lkPath, lkTemp, lkData, lkDone,
                   lkMode, lkPrior, answers, worker_ids, driver, daemon, before>>

\* locked_json_file, line 77: flock(LOCK_EX) on the open file; it waits
\* while another open file of the same inode holds a lock
flock(w) == \A v \in Workers \ {w} : ~(HoldsLock(v) /\ lkFd[v] = lkFd[w])

LkFlock(w) ==
    /\ pc[w] = "lk_flock"
    /\ flock(w)
    /\ pc' = [pc EXCEPT ![w] = "lk_body"]
    /\ UNCHANGED <<task_id, trackerVars, regVars, loopVars, lockVars, answers, worker_ids, driver, daemon, before>>

\* locked_json_file, lines 81-100, and the block of the caller
\* (test_utils.py, lines 169-174): data[key] = data.get(key, 0) + 1
LkBody(w) ==
    /\ pc[w] = "lk_body"
    /\ lkData' = [lkData EXCEPT ![w] = [lkContent[lkFd[w]] EXCEPT ![w] = @ + 1]]
    /\ pc' = [pc EXCEPT ![w] = "lk_temp"]
    /\ UNCHANGED <<task_id, trackerVars, regVars, loopVars, lkPath, lkContent, lkFd, lkTemp, lkDone,
                   lkMode, lkPrior, answers, worker_ids, driver, daemon, before>>

\* locked_json_file, lines 105-114: the temp file, written and synced
LkTemp(w) ==
    /\ pc[w] = "lk_temp"
    /\ lkTemp' = [lkTemp EXCEPT ![w] = FreshInode]
    /\ lkContent' = [lkContent EXCEPT ![FreshInode] = lkData[w]]
    /\ pc' = [pc EXCEPT ![w] = "lk_replace"]
    /\ UNCHANGED <<task_id, trackerVars, regVars, loopVars, lkPath, lkFd, lkData, lkDone,
                   lkMode, lkPrior, answers, worker_ids, driver, daemon, before>>

\* locked_json_file, line 117: os.replace(temp_path, path)
LkReplace(w) ==
    /\ pc[w] = "lk_replace"
    /\ lkPath' = lkTemp[w]
    /\ lkTemp' = [lkTemp EXCEPT ![w] = 0]
    /\ lkContent' = Collect(lkContent, lkPath', lkFd, lkTemp')
    /\ pc' = [pc EXCEPT ![w] = "lk_unlock"]
    /\ UNCHANGED <<task_id, trackerVars, regVars, loopVars, lkFd, lkData, lkDone,
                   lkMode, lkPrior, answers, worker_ids, driver, daemon, before>>

\* locked_json_file, lines 126-129, and the end of `with open`: the lock is
\* released and the file closed; the writer goes on to its next block
LkUnlock(w) ==
    /\ pc[w] = "lk_unlock"
    /\ lkFd' = [lkFd EXCEPT ![w] = 0]
    /\ lkData' = [lkData EXCEPT ![w] = NoKeys]
    /\ lkContent' = Collect(lkContent, lkPath, lkFd', lkTemp)
    /\ lkDone' = [lkDone EXCEPT ![w] = @ + 1]
    /\ lkPrior' = [lkPrior EXCEPT ![w] = NoPrior]
    /\ pc' = [pc EXCEPT ![w] = IF lkDone[w] + 1 < Iterations THEN "lk_enter" ELSE "lk_done"]
    /\ UNCHANGED <<task_id, trackerVars, regVars, loopVars, lkPath, lkTemp, lkMode, answers,
                   worker_ids, driver, daemon, before>>

\* locked_json_file, lines 81-129: an exception leaves the block (raised
\* by the caller's body at the yield of line 100, or by the read); the
\* finally releases the lock, `with open` closes the file, and the
\* exception goes on to the caller
LkRaise(w) ==
    /\ pc[w] = "lk_body"
    /\ lkFd' = [lkFd EXCEPT ![w] = 0]
    /\ lkData' = [lkData EXCEPT ![w] = NoKeys]
    /\ lkContent' = Collect(lkContent, lkPath, lkFd', lkTemp)
    /\ lkPrior' = [lkPrior EXCEPT ![w] = NoPrior]
    /\ pc' = [pc EXCEPT ![w] = "lk_raised"]
    /\ UNCHANGED <<task_id, trackerVars, regVars, loopVars, lkPath, lkTemp, lkDone, lkMode,
                   answers, worker_ids, driver, daemon, before>>

\* locked_json_file, lines 109-129: the write of the temp file or the
\* os.replace fails; the except clause unlinks the temp file and raises
\* again, the finally releases the lock
LkTempFails(w) ==
    /\ pc[w] = "lk_replace"
    /\ lkTemp' = [lkTemp EXCEPT ![w] = 0]
    /\ lkFd' = [lkFd EXCEPT ![w] = 0]
    /\ lkData' = [lkData EXCEPT ![w] = NoKeys]
    /\ lkContent' = Collect(lkContent, lkPath, lkFd', lkTemp')
    /\ lkPrior' = [lkPrior EXCEPT ![w] = NoPrior]
    /\ pc' = [pc EXCEPT ![w] = "lk_raised"]
    /\ UNCHANGED <<task_id, trackerVars, regVars, loopVars, lkPath, lkDone, lkMode,
                   answers, worker_ids, driver, daemon, before>>

\* ------------------------------------------------ the worktree manager

\* create_worktree, line 48: worktree_name = f"{worker_id}-{task_id}", the
\* name of the worktree directory (and, after "hive-", of the session)
Key(worker_id, t) == worker_id \o "-" \o t

\* What a git call can leave behind: the directories, the tracked worktrees,
\* the branches and the directories with an agent's files, and whether the
\* method raised WorktreeError.
GitResult(dir, tracked, br, work, raised) ==
    [wtDir |-> dir, wtTracked |-> tracked, branches |-> br, wtWork |-> work,
     raised |-> raised]

\* git worktree prune: git forgets every worktree whose directory is gone
GitWorktreePrune(dir, tracked) == tracked \cap dir

\* remove_worktree, lines 161-172: git branch -D deletes the branch, or
\* fails, which is ignored
DeleteBranch(results, t) ==
    results \cup {[r EXCEPT !.branches = @ \ {t}] : r \in results}

\* a remove_worktree that returns and leaves everything in place
remove_worktree_keep(dir, tracked, br, work, worker_id, t, force) ==
    {GitResult(dir, tracked, br, work, FALSE)}

\* WorktreeManager.remove_worktree, lines 105-172: every state the call can
\* leave, for the state (dir, tracked, br, work) it starts in
remove_worktree(dir, tracked, br, work, worker_id, t, force) ==
    LET k == Key(worker_id, t)
    IN  IF k \notin dir
        THEN \* lines 110-123: git worktree remove --force, check=False;
             \* returns without deleting the branch
             {GitResult(dir, tracked, br, work, FALSE),
              GitResult(dir, tracked \ {k}, br, work, FALSE)}
        ELSE \* lines 126-137: git worktree remove succeeds
             (IF k \in tracked
              THEN DeleteBranch({GitResult(dir \ {k}, tracked \ {k}, br, work \ {k}, FALSE)}, t)
              ELSE {})
             \cup
             \* lines 138-159: it fails
             (IF force
              THEN \* rmtree succeeds, prune succeeds or fails (check=False)
                   DeleteBranch({GitResult(dir \ {k}, GitWorktreePrune(dir \ {k}, tracked),
                                           br, work \ {k}, FALSE),
                                 GitResult(dir \ {k}, tracked, br, work \ {k}, FALSE)}, t)
                   \* rmtree raises
                   \cup {GitResult(dir, tracked, br, work, TRUE)}
              ELSE {GitResult(dir, tracked, br, work, TRUE)})

\* a worktree_exists that answers True for every name
worktree_exists_always(dir, worker_id, t) == TRUE

\* WorktreeManager.worktree_exists, lines 298-300
worktree_exists(dir, worker_id, t) == Key(worker_id, t) \in dir

\* a git worktree add that checks out the branch of the task when it exists
GitWorktreeAdd_reuse(dir, tracked, br, work, worker_id, t) ==
    LET k == Key(worker_id, t)
    IN  {GitResult(dir, tracked, br, work, TRUE)}
        \cup (IF k \in tracked \/ k \in dir THEN {}
              ELSE {GitResult(dir \cup {k}, tracked \cup {k}, br \cup {t}, work \ {k}, FALSE)})

\* create_worktree, lines 62-87: git worktree add <path> -b task-<t> <base>
\* fails when the branch exists or the path is a registered worktree, and
\* may fail for any other reason; the worktree it makes is a checkout of
\* the base branch
GitWorktreeAdd(dir, tracked, br, work, worker_id, t) ==
    LET k == Key(worker_id, t)
    IN  {GitResult(dir, tracked, br, work, TRUE)}
        \cup (IF t \in br \/ k \in tracked \/ k \in dir THEN {}
              ELSE {GitResult(dir \cup {k}, tracked \cup {k}, br \cup {t}, work \ {k}, FALSE)})

\* a create_worktree that takes an existing directory over when forced
create_worktree_over(dir, tracked, br, work, worker_id, t, force) ==
    LET k == Key(worker_id, t)
    IN  IF k \in dir
        THEN IF force
             THEN {GitResult(dir, tracked \cup {k}, br \cup {t}, work, FALSE)}
             ELSE {GitResult(dir, tracked, br, work, TRUE)}
        ELSE GitWorktreeAdd(dir, tracked, br, work, worker_id, t)

\* WorktreeManager.create_worktree, lines 48-87
create_worktree(dir, tracked, br, work, worker_id, t, force) ==
    LET k == Key(worker_id, t)
    IN  IF k \in dir
        THEN IF force
             THEN UNION {IF r.raised THEN {r}
                         ELSE GitWorktreeAdd(r.wtDir, r.wtTracked, r.branches, r.wtWork,
                                             worker_id, t) :
                         r \in remove_worktree(dir, tracked, br, work, worker_id, t, TRUE)}
             ELSE {GitResult(dir, tracked, br, work, TRUE)}
        ELSE GitWorktreeAdd(dir, tracked, br, work, worker_id, t)

\* the main worktree, the repository root, and a worktree somebody added
\* outside the directory worktrees/
MainPath == "."
OutsidePath == "../elsewhere"

\* cleanup_stale_worktrees, lines 238-270: the stale entries of the listing
\* one after the other: git worktree remove --force drops the entry, or it
\* fails and git worktree prune runs, which does its work or fails too
\* (check=False)
RECURSIVE CleanEntries(_, _, _)
CleanEntries(entries, dir, tracked) ==
    IF entries = {} THEN {tracked}
    ELSE LET k == CHOOSE e \in entries : TRUE
         IN  UNION {CleanEntries(entries \ {k}, dir, tr) :
                    tr \in {tracked \ {k}, GitWorktreePrune(dir, tracked), tracked}}

\* WorktreeManager.cleanup_stale_worktrees, lines 219-286: every outcome of
\* the call: the worktrees git tracks afterwards, the list it returns and
\* whether the final prune ran.  list_worktrees may raise, which the outer
\* except swallows; the paths git lists are the tracked ones.
cleanup_stale_worktrees(dir, tracked) ==
    LET stale == {k \in tracked \ {MainPath} : k \in {Key(w, t) : w \in Workers, t \in Tasks}
                                                /\ k \notin dir}
    IN  {[wtTracked |-> tracked, cleaned |-> {}, pruned |-> FALSE]}
        \cup {[wtTracked |-> final, cleaned |-> stale, pruned |-> TRUE] :
              final \in UNION {{GitWorktreePrune(dir, tr), tr} :
                               tr \in CleanEntries(stale, dir, tracked)}}

SetGit(r) ==
    /\ wtDir' = r.wtDir
    /\ wtTracked' = r.wtTracked
    /\ branches' = r.branches
    /\ wtWork' = r.wtWork

\* ------------------------------------------------------ tmux sessions

\* kill_tmux_session, lines 123-125: tmux kill-session -t <name>
kill_noop(alive, name) == alive

kill_tmux_session(alive, name) == alive \ {name}

\* tmux_session_exists, lines 128-131
tmux_session_exists(alive, name) == name \in alive

\* ------------------------------------------------------ the tracker

\* claim_task, lines 103-107: the return code of bd update --claim decides
claim_always(returncode) == TRUE

claim_task(returncode) == returncode = 0

\* bd update <t> --claim: succeeds only for an open task, which it moves to
\* in_progress in one step; it may also fail for any other reason
ClaimReturnCodes(t) == IF tstatus[t] = "open" THEN {0, 1} ELSE {1}

\* get_task_status, lines 112-120: the status read from a response; the
\* call raises AttributeError when the output is a JSON array
StatusRaises(resp) == resp.kind \in {"array", "empty"}

get_task_status(resp) == IF resp.kind = "object" THEN resp.status ELSE "unknown"

\* a request that asks for the status done whatever it was called with
RequestStatus_done(w, t, st) ==
    /\ requested' = [requested EXCEPT ![w] = @ \cup {"done"}]
    /\ \E ok \in BOOLEAN : tstatus' = IF ok THEN [tstatus EXCEPT ![t] = "done"] ELSE tstatus
    /\ UNCHANGED tdeps

\* run_command(["bd", "update", t, "--status", st, ...], check=False): the
\* tracker sets the status, or the command fails and changes nothing
RequestStatus(w, t, st) ==
    /\ requested' = [requested EXCEPT ![w] = @ \cup {st}]
    /\ \E ok \in BOOLEAN : tstatus' = IF ok THEN [tstatus EXCEPT ![t] = st] ELSE tstatus
    /\ UNCHANGED tdeps

\* ------------------------------------------------------ the Ralph loop

TaskTimeout == 2
PollInterval == 1
SpawnGrace == 2

\* ralph_loop_iteration, line 276: time.sleep(1)
ClaimSleep == 1

\* the history of calls keeps the sleeps of an iteration up to this number:
\* the grace period and one sleep per poll tick before the timeout
MaxCalls == TaskTimeout + 1

\* a sleep that is taken twice
sleep_twice(log, seconds) == Append(Append(log, <<"sleep", seconds>>), <<"sleep", seconds>>)

\* time.sleep(seconds), as the history of calls keeps it
sleep(log, seconds) ==
    IF Len(log) >= MaxCalls THEN log ELSE Append(log, <<"sleep", seconds>>)

\* run_command(["git", ...]) of merge_branch, as the history of calls keeps it
git(log, command) == Append(log, <<"git", command>>)

Return(w, value) ==
    /\ pc' = [pc EXCEPT ![w] = "returned"]
    /\ ret' = [ret EXCEPT ![w] = value]

\* ralph_loop_iteration, lines 260-263: no task, return False
NoTaskReturn(w) ==
    /\ pc[w] = "no_task"
    /\ Return(w, FALSE)
    /\ UNCHANGED <<task_id, trackerVars, regVars, gitVars, sessions, requested,
                   outcome, elapsed, spawned, supervised, killIssued, mergeOk, lockVars, answers, worker_ids, driver, daemon, before, current_status, calls>>

\* ralph_loop_iteration, lines 274-277
ClaimTask(w) ==
    /\ pc[w] = "claim"
    /\ \E returncode \in ClaimReturnCodes(task_id[w]) :
          /\ tstatus' = IF returncode = 0
                        THEN [tstatus EXCEPT ![task_id[w]] = "in_progress"]
                        ELSE tstatus
          /\ pc' = [pc EXCEPT ![w] = IF claim_task(returncode) THEN "provision"
                                      ELSE "claim_failed"]
    /\ UNCHANGED <<task_id, tdeps, regVars, gitVars, sessions, requested,
                   outcome, ret, elapsed, spawned, supervised, killIssued, mergeOk, lockVars, answers, worker_ids, driver, daemon, before, current_status, calls>>

\* a failed claim after which the worker marks the task failed
ClaimFailed_marks(w) ==
    /\ pc[w] = "claim_failed"
    /\ calls' = [calls EXCEPT ![w] = sleep(@, ClaimSleep)]
    /\ RequestStatus(w, task_id[w], "failed")
    /\ Return(w, TRUE)
    /\ UNCHANGED <<task_id, regVars, gitVars, sessions,
                   outcome, elapsed, spawned, supervised, killIssued, mergeOk, lockVars, answers,
                   worker_ids, driver, daemon, before, current_status>>

\* ralph_loop_iteration, lines 275-277: the claim failed; sleep, return True
ClaimFailed(w) ==
    /\ pc[w] = "claim_failed"
    /\ calls' = [calls EXCEPT ![w] = sleep(@, ClaimSleep)]
    /\ Return(w, TRUE)
    /\ UNCHANGED <<task_id, trackerVars, regVars, gitVars, sessions, requested,
                   outcome, elapsed, spawned, supervised, killIssued, mergeOk, lockVars, answers, worker_ids, driver, daemon, before,
                   current_status>>

\* ralph_loop_iteration, lines 288-300
Provision(w) ==
    /\ pc[w] = "provision"
    /\ LET t == task_id[w]
           start == GitResult(wtDir, wtTracked, branches, wtWork, FALSE)
           cleared == IF worktree_exists(wtDir, w, t)
                      THEN remove_worktree(wtDir, wtTracked, branches, wtWork, w, t, TRUE)
                      ELSE {start}
           results == UNION {IF r.raised THEN {r}
                             ELSE create_worktree(r.wtDir, r.wtTracked, r.branches, r.wtWork, w, t, FALSE) :
                             r \in cleared}
       IN  \E r \in results :
              /\ SetGit(r)
              /\ IF r.raised
                 THEN /\ RequestStatus(w, t, "failed")
                      /\ Return(w, TRUE)
                 ELSE /\ pc' = [pc EXCEPT ![w] = "context"]
                      /\ UNCHANGED <<ret, trackerVars, requested>>
    /\ UNCHANGED <<task_id, regVars, merged, sessions,
                   outcome, elapsed, spawned, supervised, killIssued, mergeOk, lockVars, answers, worker_ids, driver, daemon, before, current_status, calls>>

\* a forced remove_worktree that ends the iteration: it returns, and the
\* iteration goes on at `next`, or it raises, and the exception leaves
\* ralph_loop_iteration
RemoveThen(w, next) ==
    \E r \in remove_worktree(wtDir, wtTracked, branches, wtWork, w, task_id[w], TRUE) :
        /\ SetGit(r)
        /\ pc' = [pc EXCEPT ![w] = IF r.raised THEN "raised" ELSE next]

\* ralph_loop_iteration, lines 308-322: generate_claude_context_from_beads
\* reads title, description and type of the task with task.get, which needs
\* the task as one JSON object
GenerateContext(w) ==
    /\ pc[w] = "context"
    /\ \E kind \in ShowKinds :
          IF kind = "object"
          THEN /\ pc' = [pc EXCEPT ![w] = "spawn"]
               /\ UNCHANGED <<ret, trackerVars, requested, gitVars>>
          ELSE /\ RequestStatus(w, task_id[w], "failed")
               /\ \E r \in remove_worktree(wtDir, wtTracked, branches, wtWork, w, task_id[w], TRUE) :
                     /\ SetGit(r)
                     /\ IF r.raised
                        THEN pc' = [pc EXCEPT ![w] = "raised"] /\ UNCHANGED ret
                        ELSE Return(w, TRUE)
               /\ UNCHANGED merged
    /\ UNCHANGED <<task_id, regVars, sessions,
                   outcome, elapsed, spawned, supervised, killIssued, mergeOk, lockVars, answers, worker_ids, driver, daemon, before, current_status, calls>>

\* ralph_loop_iteration, lines 331-342: kill a stale session, start the
\* new one (tmux new-session may fail, check=False), send the command
SpawnAgent(w) ==
    /\ pc[w] = "spawn"
    /\ LET name == Key(w, task_id[w])
           stale == kill_tmux_session(sessions, name)
       IN  sessions' \in {stale, stale \cup {name}}
    /\ spawned' = [spawned EXCEPT ![w] = TRUE]
    /\ pc' = [pc EXCEPT ![w] = "register_read"]
    /\ UNCHANGED <<task_id, trackerVars, regVars, gitVars, requested,
                   outcome, ret, elapsed, supervised, killIssued, mergeOk, lockVars, answers, worker_ids, driver, daemon, before, current_status, calls>>

\* has_activity that takes a silent session for a failed spawn
has_activity_output(status, active, exists) ==
    IF status # "in_progress" THEN TRUE ELSE active

\* ralph_loop_iteration, lines 365-372: has_activity.  check_tmux_activity
\* is false for a session that does not exist (capture-pane fails).
has_activity(status, active, exists) ==
    IF status # "in_progress" THEN TRUE
    ELSE IF active THEN TRUE
    ELSE IF ~exists THEN FALSE
    ELSE TRUE

\* ralph_loop_iteration, lines 359-382: the spawn grace period check
GraceCheck(w) ==
    /\ pc[w] = "grace"
    /\ calls' = [calls EXCEPT ![w] = sleep(@, SpawnGrace)]
    /\ LET t == task_id[w]
           name == Key(w, t)
           exists == tmux_session_exists(sessions, name)
       IN  \E kind \in ShowKinds, output \in BOOLEAN :
              LET resp == ShowResponse(t, kind)
                  active == exists /\ output
              IN  IF StatusRaises(resp)
                  THEN /\ pc' = [pc EXCEPT ![w] = "raised"]
                       /\ UNCHANGED <<ret, trackerVars, requested, gitVars, sessions,
                                      elapsed, supervised, killIssued, current_status>>
                  ELSE /\ current_status' = [current_status EXCEPT ![w] = get_task_status(resp)]
                       /\ IF has_activity(get_task_status(resp), active, exists)
                          THEN /\ pc' = [pc EXCEPT ![w] = "poll"]
                               /\ elapsed' = [elapsed EXCEPT ![w] = 0]
                               /\ supervised' = [supervised EXCEPT ![w] = TRUE]
                               /\ UNCHANGED <<ret, trackerVars, requested, gitVars, sessions,
                                              killIssued>>
                          ELSE /\ RequestStatus(w, t, "failed")
                               /\ sessions' = kill_tmux_session(sessions, name)
                               /\ killIssued' = [killIssued EXCEPT ![w] = TRUE]
                               /\ \E r \in remove_worktree(wtDir, wtTracked, branches, wtWork, w, t, TRUE) :
                                     /\ SetGit(r)
                                     /\ IF r.raised
                                        THEN pc' = [pc EXCEPT ![w] = "raised"] /\ UNCHANGED ret
                                        ELSE Return(w, TRUE)
                               /\ UNCHANGED <<merged, elapsed, supervised>>
    /\ UNCHANGED <<task_id, regVars, outcome, spawned, mergeOk, lockVars, answers, worker_ids, driver, daemon, before>>

\* a timeout test that lets the tick at the limit go on
timed_out_strict(elapsed_time) == elapsed_time > TaskTimeout

\* ralph_loop_iteration, lines 395-396: elapsed >= task_timeout
timed_out(elapsed_time) == elapsed_time >= TaskTimeout

\* an outcome of a dead session that does not look at the status
death_outcome_crashed(status) == "crashed"

\* ralph_loop_iteration, lines 409-416: the outcome when the session died
death_outcome(status) == IF status = "in_progress" THEN "crashed" ELSE status

\* ralph_loop_iteration, lines 395-417: the head of a poll tick
PollTick(w) ==
    /\ pc[w] = "poll"
    /\ LET t == task_id[w]
           name == Key(w, t)
       IN  IF timed_out(elapsed[w])
           THEN /\ RequestStatus(w, t, "failed")
                /\ outcome' = [outcome EXCEPT ![w] = "timeout"]
                /\ pc' = [pc EXCEPT ![w] = "cleanup"]
                /\ UNCHANGED current_status
           ELSE IF ~tmux_session_exists(sessions, name)
           THEN \E kind \in ShowKinds :
                   LET resp == ShowResponse(t, kind)
                   IN  IF StatusRaises(resp)
                       THEN /\ pc' = [pc EXCEPT ![w] = "raised"]
                            /\ UNCHANGED <<trackerVars, requested, outcome, current_status>>
                       ELSE /\ current_status' =
                                    [current_status EXCEPT ![w] = get_task_status(resp)]
                            /\ pc' = [pc EXCEPT ![w] = "cleanup"]
                            /\ outcome' = [outcome EXCEPT ![w] =
                                                death_outcome(get_task_status(resp))]
                            /\ IF get_task_status(resp) = "in_progress"
                               THEN RequestStatus(w, t, "failed")
                               ELSE UNCHANGED <<trackerVars, requested>>
           ELSE /\ pc' = [pc EXCEPT ![w] = "touch_read"]
                /\ UNCHANGED <<trackerVars, requested, outcome, current_status>>
    /\ UNCHANGED <<task_id, regVars, gitVars, sessions,
                   ret, elapsed, spawned, supervised, killIssued, mergeOk, lockVars, answers, worker_ids, driver, daemon, before,
                   calls>>

\* a poll loop that also ends when the status read is closed
ends_poll_closed(status) == status \in {"done", "too_big", "blocked", "failed", "closed"}

\* ralph_loop_iteration, lines 425-440: the statuses that end the poll loop
EndsPoll(status) == status \in {"done", "too_big", "blocked", "failed"}

\* a sleep during which no time passes
later_stuck(elapsed_time) == elapsed_time

\* ralph_loop_iteration, lines 442 and 395: elapsed after the sleep of
\* poll_interval (kept at the timeout once it is reached)
later(elapsed_time) ==
    IF elapsed_time + PollInterval > TaskTimeout THEN TaskTimeout
    ELSE elapsed_time + PollInterval

\* ralph_loop_iteration, lines 423-442: the tail of a poll tick
PollStatus(w) ==
    /\ pc[w] = "poll_status"
    /\ \E kind \in ShowKinds :
          LET resp == ShowResponse(task_id[w], kind)
          IN  IF StatusRaises(resp)
              THEN /\ pc' = [pc EXCEPT ![w] = "raised"]
                   /\ UNCHANGED <<outcome, elapsed, current_status, calls>>
              ELSE /\ current_status' = [current_status EXCEPT ![w] = get_task_status(resp)]
                   /\ IF EndsPoll(get_task_status(resp))
                      THEN /\ outcome' = [outcome EXCEPT ![w] = get_task_status(resp)]
                           /\ pc' = [pc EXCEPT ![w] = "cleanup"]
                           /\ UNCHANGED <<elapsed, calls>>
                      ELSE /\ calls' = [calls EXCEPT ![w] = sleep(@, PollInterval)]
                           /\ elapsed' = [elapsed EXCEPT ![w] = later(@)]
                           /\ pc' = [pc EXCEPT ![w] = "poll"]
                           /\ UNCHANGED outcome
    /\ UNCHANGED <<task_id, trackerVars, regVars, gitVars, sessions, requested,
                   ret, spawned, supervised, killIssued, mergeOk, lockVars, answers, worker_ids, driver, daemon, before>>

\* ralph_loop_iteration, line 448
CleanupAgent(w) ==
    /\ pc[w] = "cleanup"
    /\ sessions' = kill_tmux_session(sessions, Key(w, task_id[w]))
    /\ killIssued' = [killIssued EXCEPT ![w] = TRUE]
    /\ pc' = [pc EXCEPT ![w] = IF outcome[w] = "done" THEN "merge_checkout" ELSE "handle"]
    /\ UNCHANGED <<task_id, trackerVars, regVars, gitVars, requested,
                   outcome, ret, elapsed, spawned, supervised, mergeOk, lockVars, answers, worker_ids, driver, daemon, before, current_status, calls>>

\* ralph_loop_iteration, lines 454-482: the outcomes after which the
\* worktree is kept
keeps_blocked_only(result, merge_ok) == result = "blocked"

keeps_too_big(result, merge_ok) ==
    result \in {"blocked", "too_big"} \/ (result = "done" /\ ~merge_ok)

KeepsWorktree(result, merge_ok) ==
    result = "blocked" \/ (result = "done" /\ ~merge_ok)

\* a checkout that waits while another worker is inside merge_branch
MergeCheckout_locked(w) ==
    /\ pc[w] = "merge_checkout"
    /\ \A v \in Workers \ {w} : pc[v] # "merge_merge"
    /\ calls' = [calls EXCEPT ![w] = git(@, "checkout")]
    /\ pc' = [pc EXCEPT ![w] = "merge_merge"]
    /\ UNCHANGED <<task_id, trackerVars, regVars, gitVars, sessions, requested, mergeOk,
                   outcome, ret, elapsed, spawned, supervised, killIssued, lockVars, answers, worker_ids, driver, daemon, before,
                   current_status>>

\* merge_branch, lines 151-153: git checkout main
MergeCheckout(w) ==
    /\ pc[w] = "merge_checkout"
    /\ calls' = [calls EXCEPT ![w] = git(@, "checkout")]
    /\ \E returncode \in {0, 1} :
          IF returncode # 0
          THEN /\ mergeOk' = [mergeOk EXCEPT ![w] = FALSE]
               /\ pc' = [pc EXCEPT ![w] = "handle"]
          ELSE /\ pc' = [pc EXCEPT ![w] = "merge_merge"]
               /\ UNCHANGED mergeOk
    /\ UNCHANGED <<task_id, trackerVars, regVars, gitVars, sessions, requested,
                   outcome, ret, elapsed, spawned, supervised, killIssued, lockVars, answers, worker_ids, driver, daemon, before,
                   current_status>>

\* a failed merge that is left as it is
merge_left(log, returncode) == git(log, "merge")

\* merge_branch, lines 155-160: git merge <branch> --no-edit, and
\* git merge --abort when it fails
merge_or_abort(log, returncode) ==
    IF returncode # 0 THEN git(git(log, "merge"), "abort") ELSE git(log, "merge")

\* merge_branch, lines 155-162
MergeMerge(w) ==
    /\ pc[w] = "merge_merge"
    /\ \E returncode \in {0, 1} :
          /\ calls' = [calls EXCEPT ![w] = merge_or_abort(@, returncode)]
          /\ mergeOk' = [mergeOk EXCEPT ![w] = (returncode = 0)]
          /\ merged' = IF returncode = 0 THEN merged \cup {task_id[w]} ELSE merged
    /\ pc' = [pc EXCEPT ![w] = "handle"]
    /\ UNCHANGED <<task_id, trackerVars, regVars, wtDir, wtTracked, branches, wtWork, sessions,
                   requested, outcome, ret, elapsed, spawned, supervised, killIssued, lockVars,
                   answers, worker_ids, driver, daemon, before, current_status>>

\* ralph_loop_iteration, lines 454-482
HandleOutcome(w) ==
    /\ pc[w] = "handle"
    /\ IF KeepsWorktree(outcome[w], mergeOk[w])
       THEN /\ pc' = [pc EXCEPT ![w] = "unregister_read"]
            /\ IF outcome[w] = "done"
               THEN RequestStatus(w, task_id[w], "blocked")
               ELSE UNCHANGED <<trackerVars, requested>>
            /\ UNCHANGED <<wtDir, wtTracked, branches, wtWork>>
       ELSE /\ RemoveThen(w, "unregister_read")
            /\ UNCHANGED <<trackerVars, requested>>
    /\ UNCHANGED <<task_id, regVars, merged, sessions, loopLocal, lockVars, answers, worker_ids, driver, daemon, before>>

\* ralph_loop_iteration, lines 487-490
IterationEnd(w) ==
    /\ pc[w] = "iteration_end"
    /\ Return(w, TRUE)
    /\ UNCHANGED <<task_id, trackerVars, regVars, gitVars, sessions, requested,
                   outcome, elapsed, spawned, supervised, killIssued, mergeOk, lockVars, answers, worker_ids, driver, daemon, before, current_status, calls>>

\* run_worker, lines 507-518: the next iteration, or the end of the worker
RunWorker(w) ==
    /\ pc[w] = "returned"
    /\ pc' = [pc EXCEPT ![w] = IF ret[w] THEN "start" ELSE "exited"]
    /\ task_id' = [task_id EXCEPT ![w] = NoTask]
    /\ outcome' = [outcome EXCEPT ![w] = "none"]
    /\ elapsed' = [elapsed EXCEPT ![w] = 0]
    /\ spawned' = [spawned EXCEPT ![w] = FALSE]
    /\ supervised' = [supervised EXCEPT ![w] = FALSE]
    /\ killIssued' = [killIssued EXCEPT ![w] = FALSE]
    /\ mergeOk' = [mergeOk EXCEPT ![w] = FALSE]
    /\ requested' = [requested EXCEPT ![w] = {}]
    /\ current_status' = [current_status EXCEPT ![w] = "none"]
    /\ calls' = [calls EXCEPT ![w] = <<>>]
    /\ UNCHANGED <<trackerVars, regVars, gitVars, sessions, ret, lockVars, answers, worker_ids, driver, daemon, before>>

\* The agent, or anyone else, sets the status of a task in progress.
AgentStatuses == {"done", "too_big", "blocked", "failed", "closed"}

AgentSetsStatus(t) ==
    /\ tstatus[t] = "in_progress"
    /\ \E st \in AgentStatuses : tstatus' = [tstatus EXCEPT ![t] = st]
    /\ UNCHANGED <<pc, task_id, tdeps, regVars, loopVars, lockVars, answers, worker_ids, driver, daemon, before>>

\* The agent writes files in its worktree.
AgentWrites(name) ==
    /\ name \in sessions
    /\ name \in wtDir
    /\ name \notin wtWork
    /\ wtWork' = wtWork \cup {name}
    /\ UNCHANGED <<pc, task_id, trackerVars, regVars, wtDir, wtTracked, branches, merged,
                   sessions, requested, loopLocal, lockVars, answers, worker_ids, driver, daemon, before>>

\* The agent's session ends by itself.
SessionExits(name) ==
    /\ name \in sessions
    /\ sessions' = sessions \ {name}
    /\ UNCHANGED <<pc, task_id, trackerVars, regVars, gitVars, requested, loopLocal, lockVars, answers, worker_ids, driver, daemon, before>>

\* The invocations of `hive daemon start` that are modelled; each one's
\* name stands for the PID it writes (os.getpid() at the write).
Starters == {"start-1", "start-2"}

\* hive daemon start is not modelled: no PID file, no invocation
NoDaemon == [pid_file |-> "none", pc |-> [s \in Starters |-> "none"],
             foreground |-> [s \in Starters |-> FALSE]]

\* the state all specifications start from: nothing has run yet
InitCommon ==
    /\ daemon = NoDaemon
    /\ task_id = [w \in Workers |-> NoTask]
    /\ regData = [w \in Workers |-> FreshData]
    /\ clock = 1
    /\ expected = [w \in Workers |-> FALSE]
    /\ opsDone = [w \in Workers |-> 0]
    /\ readKind = [r \in Readers |-> "none"]
    /\ sessions = {}
    /\ requested = [w \in Workers |-> {}]
    /\ outcome = [w \in Workers |-> "none"]
    /\ ret = [w \in Workers |-> TRUE]
    /\ elapsed = [w \in Workers |-> 0]
    /\ spawned = [w \in Workers |-> FALSE]
    /\ supervised = [w \in Workers |-> FALSE]
    /\ killIssued = [w \in Workers |-> FALSE]
    /\ mergeOk = [w \in Workers |-> FALSE]
    /\ current_status = [w \in Workers |-> "none"]
    /\ calls = [w \in Workers |-> <<>>]
    /\ lkPath = 0
    /\ lkContent = [i \in Inodes |-> NoKeys]
    /\ lkFd = [w \in Workers |-> 0]
    /\ lkTemp = [w \in Workers |-> 0]
    /\ lkData = [w \in Workers |-> NoKeys]
    /\ lkDone = [w \in Workers |-> 0]
    /\ lkMode = [w \in Workers |-> "r+"]
    /\ lkPrior = [w \in Workers |-> NoPrior]

\* run_worker, line 501: worker_id = f"worker-{worker_num}"
DefaultIds == [w \in Workers |-> w]

\* work_cmd is not modelled: the workers are running
NoDriver == [pc |-> "none", parallel |-> 0, processes |-> <<>>, joined |-> 0]

\* no call of the worktree manager recorded
NoCall == [git |-> GitResult({}, {}, {}, {}, FALSE), force |-> FALSE, log |-> <<>>,
           cleaned |-> {}, pruned |-> FALSE]

\* a repository without worktrees and task branches
InitGit ==
    /\ wtDir = {}
    /\ wtTracked = {}
    /\ branches = {}
    /\ merged = {}
    /\ wtWork = {}

InitRest ==
    InitCommon /\ InitGit /\ answers = NoAnswers /\ before = NoCall /\ worker_ids = DefaultIds /\ driver = NoDriver

\* Two workers and one open task, t1: they race for it.
Init ==
    /\ pc = [w \in Workers |-> "start"]
    /\ tstatus = [t \in Tasks |-> IF t = "t1" THEN "open" ELSE "closed"]
    /\ tdeps = [t \in Tasks |-> {}]
    /\ regFile = InitRegistry
    /\ InitRest

\* One worker and two open tasks, t2 depending on t1.
InitSolo ==
    /\ pc = [w \in Workers |-> "start"]
    /\ tstatus = [t \in Tasks |-> "open"]
    /\ tdeps = [t \in Tasks |-> IF t = "t2" THEN {"t1"} ELSE {}]
    /\ regFile = InitRegistry
    /\ InitRest

\* the steps of worker w: one iteration after the other
WorkerStep(w) ==
    \/ GetNextTask(w, "claim", "no_task")
    \/ NoTaskReturn(w)
    \/ ClaimTask(w)
    \/ ClaimFailed(w)
    \/ Provision(w)
    \/ GenerateContext(w)
    \/ SpawnAgent(w)
    \/ RegisterRead(w)
    \/ RegisterOpen(w)
    \/ RegisterDump(w, "grace")
    \/ GraceCheck(w)
    \/ PollTick(w)
    \/ TouchRead(w, "poll_status")
    \/ TouchOpen(w)
    \/ TouchDump(w, "poll_status")
    \/ PollStatus(w)
    \/ CleanupAgent(w)
    \/ MergeCheckout(w)
    \/ MergeMerge(w)
    \/ HandleOutcome(w)
    \/ UnregisterRead(w, "iteration_end")
    \/ UnregisterOpen(w)
    \/ UnregisterDump(w, "iteration_end")
    \/ IterationEnd(w)
    \/ RunWorker(w)

\* the steps of the workers W and of their environment
NextOf(W) ==
    \/ \E w \in W : WorkerStep(w)
    \/ \E t \in Tasks : AgentSetsStatus(t)
    \/ \E w \in W, t \in Tasks : SessionExits(Key(w, t))
    \/ \E w \in W, t \in Tasks : AgentWrites(Key(w, t))

Next == NextOf(Workers)

NextSolo == NextOf({"worker-1"})

Spec == Init /\ [][Next]_vars

SpecSolo == InitSolo /\ [][NextSolo]_vars

\* The worker process keeps running: every external command returns and
\* every sleep ends, so the worker always takes its next step.
SpecSoloFair == SpecSolo /\ WF_vars(WorkerStep("worker-1"))

\* ------------------- SpecDriver: work_cmd and the workers it starts

\* run_worker, line 501
WorkerId(worker_num) == "worker-" \o ToString(worker_num)

\* a join that returns at once
join_at_once(state) == TRUE

\* p.join(), line 574: returns when the process has ended, by the return of
\* run_worker or by an exception
join(state) == state \in {"exited", "raised"}

\* work_cmd, lines 563-571: one process per worker number, in order
DriverStart ==
    /\ driver.pc = "main" /\ driver.parallel > 1
    /\ Len(driver.processes) < driver.parallel
    /\ LET i == Len(driver.processes) + 1
       IN  /\ pc' = [pc EXCEPT ![WorkerId(i)] = "start"]
           /\ driver' = [driver EXCEPT !.processes = Append(@, WorkerId(i))]
    /\ UNCHANGED <<task_id, trackerVars, regVars, loopVars, lockVars, answers, worker_ids, daemon, before>>

\* work_cmd, lines 573-577: the joins in the order of the list, and after
\* the last one "[main] All workers completed"
DriverJoin ==
    /\ driver.pc = "main" /\ driver.parallel > 1
    /\ Len(driver.processes) = driver.parallel
    /\ join(pc[driver.processes[driver.joined + 1]])
    /\ driver' = [driver EXCEPT !.joined = @ + 1,
                                !.pc = IF driver.joined + 1 = driver.parallel
                                       THEN "completed" ELSE "main"]
    /\ UNCHANGED <<pc, task_id, trackerVars, regVars, loopVars, lockVars, answers, worker_ids,
                   daemon, before>>

\* work_cmd, lines 579-601: the loop runs in the calling process
DriverSerial ==
    /\ driver.pc = "main" /\ driver.parallel = 1
    /\ pc' = [pc EXCEPT ![WorkerId(1)] = "start"]
    /\ driver' = [driver EXCEPT !.pc = "serial"]
    /\ UNCHANGED <<task_id, trackerVars, regVars, loopVars, lockVars, answers, worker_ids, daemon, before>>

\* hive work --parallel N with N from 1 to the number of workers; no
\* worker runs yet; one open task, as in Init
InitDriver ==
    /\ pc = [w \in Workers |-> "unstarted"]
    /\ tstatus = [t \in Tasks |-> IF t = "t1" THEN "open" ELSE "closed"]
    /\ tdeps = [t \in Tasks |-> {}]
    /\ regFile = InitRegistry
    /\ InitCommon /\ InitGit /\ answers = NoAnswers /\ before = NoCall
    /\ worker_ids = DefaultIds
    /\ \E n \in 1..Cardinality(Workers) : driver = [NoDriver EXCEPT !.pc = "main", !.parallel = n]

NextDriver ==
    \/ DriverStart
    \/ DriverJoin
    \/ DriverSerial
    \/ NextOf(Workers)

SpecDriver == InitDriver /\ [][NextDriver]_vars

\* the places of an iteration between its successful claim and its end
HoldingPcs ==
    {"provision", "context", "spawn", "register_read", "register_open", "register_dump",
     "grace", "poll", "touch_read", "touch_open", "touch_dump", "poll_status", "cleanup",
     "merge_checkout", "merge_merge", "handle"}

EndingPcs == {"unregister_read", "unregister_open", "unregister_dump", "iteration_end"}

HasRecordFor(file, worker_id, t) ==
    \E i \in 1..Len(file.workers) :
        file.workers[i].id = worker_id /\ file.workers[i].current_task = t

\* C4: whenever an iteration has returned, the registry holds no record of
\* its worker: an iteration that registered has unregistered.
C4_ReturnedMeansUnregistered ==
    \A w \in Workers : pc[w] = "returned" => ~HasRecord(regFile, w)

\* C5: from the successful claim to the end of the iteration the registry
\* holds a record of the worker that names the claimed task.
C5_ClaimedMeansRegistered ==
    \A w \in Workers : pc[w] \in HoldingPcs => HasRecordFor(regFile, w, task_id[w])

\* C6: an iteration that started its session and has returned has issued a
\* kill of that session, and the session is not alive.
C6_ReturnedMeansSessionKilled ==
    \A w \in Workers :
        (pc[w] = "returned" /\ spawned[w])
            => (killIssued[w] /\ Key(w, task_id[w]) \notin sessions)

\* C6 witness: an iteration returned from the poll loop with outcome done
\* after having started and killed its session.
C6_Witness ==
    \E w \in Workers :
        pc[w] = "returned" /\ spawned[w] /\ killIssued[w] /\ outcome[w] = "done"

\* C7: when an iteration that reached the poll loop has returned, the
\* worktree directory of its task exists if and only if the outcome was
\* blocked, or the outcome was done and merge_branch failed.
C7_WorktreeKeptIffBlockedOrConflict ==
    \A w \in Workers :
        (pc[w] = "returned" /\ supervised[w])
            => (Key(w, task_id[w]) \in wtDir
                    <=> (outcome[w] = "blocked" \/ (outcome[w] = "done" /\ ~mergeOk[w])))

\* C7 witness: a done task whose merge failed returned with its worktree
\* kept.
C7_Witness ==
    \E w \in Workers :
        /\ pc[w] = "returned" /\ supervised[w]
        /\ outcome[w] = "done" /\ ~mergeOk[w]
        /\ Key(w, task_id[w]) \in wtDir

\* C8: no exception ever escapes ralph_loop_iteration.
C8_NoExceptionEscapes == \A w \in Workers : pc[w] # "raised"

\* no two workers are between a successful claim and the end of the
\* iteration with the same task
C9_Exclusive ==
    \A v, w \in Workers :
        (v # w /\ pc[v] \in HoldingPcs \cup EndingPcs /\ pc[w] \in HoldingPcs \cup EndingPcs)
            => task_id[v] # task_id[w]

\* a worker whose claim failed has no worktree, no session and no record
C9_LoserHasNothing ==
    \A w \in Workers :
        pc[w] = "claim_failed"
            => (Key(w, task_id[w]) \notin wtDir \cup wtTracked \cup sessions
                /\ ~HasRecord(regFile, w))

\* the step a worker takes after a failed claim returns True and changes
\* nothing in git, tmux, the registry or the tracker
C9_LoserContinues ==
    \A w \in Workers :
        (pc[w] = "claim_failed" /\ pc'[w] # "claim_failed")
            => (pc'[w] = "returned" /\ ret'[w] = TRUE
                /\ UNCHANGED <<gitVars, sessions, regFile, requested, tstatus>>)

\* C9: with a tracker whose claim is atomic, two workers never hold the
\* same claimed task at the same time, and a worker whose claim failed has
\* provisioned nothing and returns True (continue) provisioning nothing.
C9_ClaimIsExclusive ==
    [](C9_Exclusive /\ C9_LoserHasNothing) /\ [][C9_LoserContinues]_vars

\* C9 witness: one worker holds the task the other has just failed to claim.
C9_Witness ==
    \E v, w \in Workers :
        /\ pc[v] \in HoldingPcs
        /\ pc[w] = "claim_failed"
        /\ task_id[v] = task_id[w]

\* the git commands among the calls of an iteration, in the order issued
RECURSIVE GitCalls(_)
GitCalls(log) ==
    IF log = <<>> THEN <<>>
    ELSE IF Head(log)[1] = "git" THEN <<Head(log)[2]>> \o GitCalls(Tail(log))
    ELSE GitCalls(Tail(log))

\* the places after merge_branch has returned
AfterMergePcs ==
    {"handle", "unregister_read", "unregister_open", "unregister_dump", "iteration_end",
     "returned", "raised"}

\* the step of the spawn grace check that has read the status
C12_GraceStep ==
    \A w \in Workers :
        (pc[w] = "grace" /\ current_status'[w] # "none")
            => IF current_status'[w] = "in_progress" /\ Key(w, task_id[w]) \notin sessions
               THEN /\ "failed" \in requested'[w]
                    /\ killIssued'[w] /\ ~supervised'[w]
                    /\ pc'[w] \in {"returned", "raised"}
                    /\ (pc'[w] = "returned" => ret'[w] = TRUE)
               ELSE /\ pc'[w] = "poll" /\ supervised'[w]
                    /\ UNCHANGED <<requested, tstatus, gitVars, sessions>>

C13_TickHead ==
    \A w \in Workers :
        (pc[w] = "poll" /\ pc'[w] # "poll")
            => /\ elapsed[w] >= TaskTimeout
                    => /\ pc'[w] = "cleanup" /\ outcome'[w] = "timeout"
                       /\ "failed" \in requested'[w]
               /\ pc'[w] = "touch_read"
                    => elapsed[w] < TaskTimeout /\ Key(w, task_id[w]) \in sessions
               /\ pc'[w] \in {"cleanup", "touch_read", "raised"}
               /\ regFile' = regFile

\* the tail of a poll tick: the status is read after the touch only
C13_TickTail ==
    \A w \in Workers :
        /\ (pc'[w] = "poll_status" /\ pc[w] # "poll_status")
                => pc[w] \in {"touch_read", "touch_dump"}
        /\ (pc'[w] = "touch_read" /\ pc[w] # "touch_read") => pc[w] = "poll"
        /\ (pc[w] = "poll_status" /\ pc'[w] = "cleanup")
                => outcome'[w] \in {"done", "too_big", "blocked", "failed"}

\* C13: a poll tick checks the timeout, then the session, then touches the
\* registry, then reads the status: a tick with elapsed >= task_timeout ends
\* as timeout with the task marked failed whatever the session and the
\* status are, and the registry is touched only in a tick where neither the
\* timeout nor the death of the session fired.
C13_TickOrder == [][C13_TickHead /\ C13_TickTail]_vars

\* C13 witness: a tick ended as timeout although the task was done and the
\* session gone.
C13_Witness ==
    \E w \in Workers :
        /\ pc[w] = "cleanup" /\ outcome[w] = "timeout"
        /\ tstatus[task_id[w]] = "done"
        /\ Key(w, task_id[w]) \notin sessions

\* the tick in which the session is found dead
C14_DeathStep ==
    \A w \in Workers :
        /\ (pc[w] = "poll" /\ elapsed[w] < TaskTimeout /\ Key(w, task_id[w]) \notin sessions
            /\ pc'[w] # "poll")
                => /\ pc'[w] \in {"cleanup", "raised"}
                   /\ pc'[w] = "cleanup"
                        => IF current_status'[w] = "in_progress"
                           THEN outcome'[w] = "crashed" /\ "failed" \in requested'[w]
                           ELSE outcome'[w] = current_status'[w] /\ requested' = requested
        /\ (pc[w] = "cleanup" /\ pc'[w] # "cleanup")
                => pc'[w] = IF outcome[w] = "done" THEN "merge_checkout" ELSE "handle"

\* C14: when the session no longer exists and the timeout has not fired,
\* the iteration leaves the poll loop in that tick: with status in_progress
\* the task is marked failed and the outcome is crashed, otherwise the
\* outcome is the status read, handled as such (done goes to the merge).
C14_SessionDeathEndsLoop == [][C14_DeathStep]_vars

\* C14 witness: a dead session with the task in progress gave crashed.
C14_Witness ==
    \E w \in Workers :
        /\ pc[w] = "handle" /\ outcome[w] = "crashed"
        /\ current_status[w] = "in_progress"
        /\ "failed" \in requested[w]

\* C15: an iteration that started a session and returned without the
\* tracker having reported done, too_big, blocked or failed (spawn failure,
\* death of the session, timeout) has asked the tracker to set a terminal
\* status.
C15_LivenessFailureSetsStatus ==
    \A w \in Workers :
        (pc[w] = "returned" /\ spawned[w]
         /\ outcome[w] \notin {"done", "too_big", "blocked", "failed", "closed"})
            => requested[w] # {}

C17_ClaimFailedStep ==
    \A w \in Workers :
        (pc[w] = "claim_failed" /\ pc'[w] # "claim_failed")
            => /\ calls[w] = <<>>
               /\ calls'[w] = <<<<"sleep", 1>>>>
               /\ pc'[w] = "returned" /\ ret'[w] = TRUE

\* C17: when claim_task returns false the iteration sleeps exactly once,
\* for 1 time unit, and returns True.
C17_SleepsOnceThenContinues == [][C17_ClaimFailedStep]_vars

\* C17 witness: an iteration returned True after a failed claim and one
\* sleep.
C17_Witness ==
    \E w \in Workers :
        /\ pc[w] = "returned" /\ ret[w]
        /\ task_id[w] # NoTask /\ ~spawned[w]
        /\ calls[w] = <<<<"sleep", 1>>>>

\* C18: merge_branch issues checkout, then merge: a failed checkout ends it
\* with False and no merge and no abort; a failed merge is followed by
\* merge --abort and False; True is returned only after exactly checkout
\* and merge.
C18_MergeCommands ==
    \A w \in Workers :
        /\ pc[w] = "merge_merge" => GitCalls(calls[w]) = <<"checkout">>
        /\ (pc[w] \in AfterMergePcs /\ outcome[w] = "done")
                => \/ mergeOk[w] /\ GitCalls(calls[w]) = <<"checkout", "merge">>
                   \/ ~mergeOk[w] /\ GitCalls(calls[w]) = <<"checkout">>
                   \/ ~mergeOk[w] /\ GitCalls(calls[w]) = <<"checkout", "merge", "abort">>

\* C18 witness: a failed merge was aborted.
C18_Witness ==
    \E w \in Workers :
        /\ pc[w] = "handle" /\ outcome[w] = "done" /\ ~mergeOk[w]
        /\ GitCalls(calls[w]) = <<"checkout", "merge", "abort">>

\* the handling of a done task whose merge failed
C19_ConflictStep ==
    \A w \in Workers :
        (pc[w] = "handle" /\ outcome[w] = "done" /\ ~mergeOk[w] /\ pc'[w] # "handle")
            => /\ pc'[w] = "unregister_read"
               /\ "blocked" \in requested'[w]
               /\ UNCHANGED <<gitVars, calls>>

C19_ConflictKept ==
    \A w \in Workers :
        (pc[w] = "returned" /\ outcome[w] = "done" /\ ~mergeOk[w])
            => /\ ret[w] = TRUE
               /\ Key(w, task_id[w]) \in wtDir
               /\ task_id[w] \in branches
               /\ task_id[w] \notin merged
               /\ "blocked" \in requested[w]
               /\ Len(SelectSeq(GitCalls(calls[w]), LAMBDA c : c = "merge")) <= 1

\* C19: when the outcome is done and merge_branch fails, no second merge
\* and no resolution is attempted: the tracker is asked to set the task
\* blocked, the worktree and its branch are kept, and the iteration returns
\* True.
C19_ConflictLeftToHuman == [](C19_ConflictKept) /\ [][C19_ConflictStep]_vars

\* C19 witness: an iteration returned after a merge conflict.
C19_Witness ==
    \E w \in Workers :
        /\ pc[w] = "returned" /\ outcome[w] = "done" /\ ~mergeOk[w]
        /\ "blocked" \in requested[w]
        /\ Key(w, task_id[w]) \in wtDir
        /\ GitCalls(calls[w]) = <<"checkout", "merge", "abort">>

\* ---------------------------------------- SpecReg: the registry alone

\* A worker process calls one of the three registry functions.
CallRegistry(w) ==
    /\ pc[w] = "idle"
    /\ opsDone[w] < MaxOps
    /\ \/ /\ pc' = [pc EXCEPT ![w] = "register_read"]
          /\ \E t \in Tasks : task_id' = [task_id EXCEPT ![w] = t]
       \/ /\ pc' = [pc EXCEPT ![w] = "unregister_read"]
          /\ UNCHANGED task_id
       \/ /\ pc' = [pc EXCEPT ![w] = "touch_read"]
          /\ UNCHANGED task_id
    /\ opsDone' = [opsDone EXCEPT ![w] = @ + 1]
    /\ UNCHANGED <<trackerVars, loopVars, regFile, regData, clock, expected, readKind, lockVars, answers, worker_ids, driver, daemon, before>>

InitReg ==
    /\ pc = [w \in Workers |-> "idle"]
    /\ tstatus = [t \in Tasks |-> "open"]
    /\ tdeps = [t \in Tasks |-> {}]
    /\ regFile \in {InitRegistry, FileMissing}
    /\ InitRest

NextReg ==
    \/ \E w \in Workers : CallRegistry(w)
    \/ \E w \in Workers : RegisterRead(w)
    \/ \E w \in Workers : RegisterOpen(w)
    \/ \E w \in Workers : RegisterDump(w, "idle")
    \/ \E w \in Workers : UnregisterRead(w, "idle")
    \/ \E w \in Workers : UnregisterOpen(w)
    \/ \E w \in Workers : UnregisterDump(w, "idle")
    \/ \E w \in Workers : TouchRead(w, "idle")
    \/ \E w \in Workers : TouchOpen(w)
    \/ \E w \in Workers : TouchDump(w, "idle")
    \/ DaemonRead
    \/ Tick

SpecReg == InitReg /\ [][NextReg]_vars

\* C1: once no registry call is in progress, the registry holds a record
\* for exactly the workers whose last completed call was register: no
\* completed register or unregister is lost or undone by another worker.
C1_RegistryMatchesLastCalls ==
    (\A w \in Workers : pc[w] = "idle")
        => \A w \in Workers : HasRecord(regFile, w) <=> expected[w]

\* C3: no reader of the registry file (the daemon's get_workers, the read
\* of register, unregister or touch) ever reads an empty, truncated file.
C3_NoReaderSeesEmptyFile == \A r \in Readers : readKind[r] # "empty"

\* ------------------- SpecOne: the registry functions called by one process

\* One process calls the registry functions for either worker id, one call
\* after the other: a call starts when no call is in progress.
NextOne ==
    \/ \E w \in Workers : (\A v \in Workers : pc[v] = "idle") /\ CallRegistry(w)
    \/ \E w \in Workers : RegisterRead(w)
    \/ \E w \in Workers : RegisterOpen(w)
    \/ \E w \in Workers : RegisterDump(w, "idle")
    \/ \E w \in Workers : UnregisterRead(w, "idle")
    \/ \E w \in Workers : UnregisterOpen(w)
    \/ \E w \in Workers : UnregisterDump(w, "idle")
    \/ \E w \in Workers : TouchRead(w, "idle")
    \/ \E w \in Workers : TouchOpen(w)
    \/ \E w \in Workers : TouchDump(w, "idle")
    \/ Tick

SpecOne == InitReg /\ [][NextOne]_vars

\* the records of the other workers, in their order
Others(workers, worker_id) == SelectSeq(workers, LAMBDA r : r.id # worker_id)

\* the number of records with this id
Count(workers, worker_id) == Cardinality({i \in 1..Len(workers) : workers[i].id = worker_id})

\* At "register_open" and "unregister_open" the file still holds what the
\* call found and regData[w] is what the call is about to write.
C27_Computed ==
    \A w \in Workers :
        /\ pc[w] = "register_open"
              => /\ Count(regData[w].workers, w) = 1
                 /\ \E i \in 1..Len(regData[w].workers) :
                        LET r == regData[w].workers[i]
                        IN  /\ r.id = w /\ r.current_task = task_id[w]
                            /\ r.started_at = r.last_activity /\ r.started_at <= clock
                 /\ Others(regData[w].workers, w) = Others(get_workers(regFile), w)
        /\ pc[w] = "unregister_open"
              => /\ Count(regData[w].workers, w) = 0
                 /\ regData[w].workers = Others(get_workers(regFile), w)
        /\ (\A v \in Workers : pc[v] = "idle") => Count(get_workers(regFile), w) <= 1

C27_Written ==
    \A w \in Workers :
        (pc[w] \in {"register_dump", "unregister_dump"} /\ pc'[w] = "idle")
            => get_workers(regFile') = regData[w].workers

\* C27: called by one process, one call after the other, from an empty
\* registry: the registry never lists two records with one worker id; what
\* register_worker writes lists exactly one record with the worker's id,
\* holding the task and the time of the call, and the other workers'
\* records as they were; what unregister_worker writes lists no record with
\* the id and the other workers' records as they were.
C27_RegisterUnregisterRoundTrip == [](C27_Computed) /\ [][C27_Written]_vars

\* C27 witness: a second register_worker of worker-1, for another task, is
\* about to replace its record while worker-2's record stands beside it.
C27_Witness ==
    /\ pc["worker-1"] = "register_open"
    /\ HasRecord(regFile, "worker-1") /\ HasRecord(regFile, "worker-2")
    /\ \E i \in 1..Len(regFile.workers) :
          /\ regFile.workers[i].id = "worker-1"
          /\ regFile.workers[i].current_task # task_id["worker-1"]
    /\ Len(regData["worker-1"].workers) = 2

\* C28: what update_worker_activity writes differs from what it found only
\* in the last_activity of the record with the worker's id, and when there
\* is no such record it leaves the content of the registry as it was.
C28_TouchChangesOnlyActivity ==
    \A w \in Workers :
        pc[w] = "touch_open"
            => LET old == regFile.workers
                   new == regData[w].workers
               IN  /\ Len(new) = Len(old)
                   /\ \A i \in 1..Len(old) :
                         \/ new[i] = old[i]
                         \/ /\ old[i].id = w
                            /\ new[i] = [old[i] EXCEPT !.last_activity = new[i].last_activity]
                   /\ ~HasRecord(regFile, w) => JsonFile(regData[w]) = regFile

\* ------------------------------ SpecLock: locked_json_file alone

\* test_locked_json_file_concurrent_writes: every writer runs Iterations
\* blocks of locked_json_file(path, "r+"); the file does not exist at first
InitLock ==
    /\ pc = [w \in Workers |-> "lk_enter"]
    /\ tstatus = [t \in Tasks |-> "open"]
    /\ tdeps = [t \in Tasks |-> {}]
    /\ regFile = InitRegistry
    /\ InitRest

NextLock ==
    \/ \E w \in Workers : LkEnter(w)
    \/ \E w \in Workers : LkCreate(w)
    \/ \E w \in Workers : LkOpen(w)
    \/ \E w \in Workers : LkFlock(w)
    \/ \E w \in Workers : LkBody(w)
    \/ \E w \in Workers : LkTemp(w)
    \/ \E w \in Workers : LkReplace(w)
    \/ \E w \in Workers : LkUnlock(w)

SpecLock == InitLock /\ [][NextLock]_vars

\* C2: when every writer has completed its blocks, the file holds one key
\* per writer, each with the number of blocks the writer ran.
C2_AllIncrementsKept ==
    (\A w \in Workers : pc[w] = "lk_done")
        => (lkPath # 0 /\ lkContent[lkPath] = [w \in Workers |-> Iterations])

\* ------------------------------------- SpecNext: get_next_task alone

\* The caller asks again.
AskAgain(w) ==
    /\ pc[w] \in {"found", "nothing"}
    /\ pc' = [pc EXCEPT ![w] = "start"]
    /\ task_id' = [task_id EXCEPT ![w] = NoTask]
    /\ UNCHANGED <<trackerVars, loopVars, regVars, lockVars, answers, worker_ids, driver, daemon, before>>

InitNext ==
    /\ pc = [w \in Workers |-> "start"]
    /\ tstatus \in [Tasks -> Statuses]
    /\ tdeps \in {d \in [Tasks -> SUBSET Tasks] : \A t \in Tasks : t \notin d[t]}
    /\ regFile = InitRegistry
    /\ InitRest

NextNext ==
    \/ \E w \in Workers : GetNextTask(w, "found", "nothing")
    \/ \E w \in Workers : AskAgain(w)

SpecNext == InitNext /\ [][NextNext]_vars

\* C10: get_next_task never returns a task that has dependencies unless
\* every one of its dependencies has status closed in the tracker.
C10_ReturnedTaskHasClosedDeps ==
    \A w \in Workers :
        (pc[w] = "found" /\ tdeps[task_id[w]] # {})
            => \A d \in tdeps[task_id[w]] : tstatus[d] = "closed"

\* C10 witness: a task with dependencies, all closed, was returned after
\* its detail query.
C10_Witness ==
    \E w \in Workers :
        /\ pc[w] = "found"
        /\ tdeps[task_id[w]] # {}
        /\ \A d \in tdeps[task_id[w]] : tstatus[d] = "closed"

\* ------------------------- SpecScan: get_next_task as a pure function

MaxList == 3

\* the entries `bd list` can print: a task with its dependency_count, 0 or
\* more; an entry without an id has dependencies here (an entry without id
\* and without dependencies is returned as it is, and has no id to tell)
ScanEntries ==
    [id : Tasks, dependency_count : {0, 1}] \cup {[id |-> NoTask, dependency_count |-> 1]}

ScanLists ==
    {[kind |-> "fail", tasks |-> <<>>], [kind |-> "garbage", tasks |-> <<>>]}
    \cup {[kind |-> "tasks", tasks |-> s] : s \in UNION {[1..n -> ScanEntries] : n \in 0..MaxList}}

\* the answers `bd show` can give for a task, with the statuses of its
\* dependencies
ScanShows ==
    [Tasks -> [kind : ShowKinds, status : {"open"}, dependencies : SUBSET {"closed", "open"}]]

\* the caller of get_next_task: it gets the task or None
ApplyGetNextTask(w) ==
    /\ pc[w] = "start"
    /\ LET task == get_next_task(answers.list, answers.show)
       IN  /\ task_id' = [task_id EXCEPT ![w] = task]
           /\ pc' = [pc EXCEPT ![w] = IF task = NoTask THEN "nothing" ELSE "found"]
    /\ UNCHANGED <<trackerVars, loopVars, regVars, lockVars, answers, worker_ids, driver, daemon, before>>

\* the caller of get_task_status(t): it gets a status, or the call raises
ApplyGetTaskStatus(w, t) ==
    /\ pc[w] = "start"
    /\ task_id' = [task_id EXCEPT ![w] = t]
    /\ IF StatusRaises(answers.show[t])
       THEN /\ pc' = [pc EXCEPT ![w] = "raised"]
            /\ UNCHANGED current_status
       ELSE /\ pc' = [pc EXCEPT ![w] = "status_returned"]
            /\ current_status' = [current_status EXCEPT ![w] = get_task_status(answers.show[t])]
    /\ UNCHANGED <<trackerVars, regVars, gitVars, sessions, requested, outcome, ret, elapsed,
                   spawned, supervised, killIssued, mergeOk, calls, lockVars, answers,
                   worker_ids, driver, daemon, before>>

InitScan ==
    /\ pc = [w \in Workers |-> "start"]
    /\ tstatus = [t \in Tasks |-> "open"]
    /\ tdeps = [t \in Tasks |-> {}]
    /\ regFile = InitRegistry
    /\ answers \in [list : ScanLists, show : ScanShows]
    /\ worker_ids = DefaultIds /\ driver = NoDriver
    /\ before = NoCall
    /\ InitGit
    /\ InitCommon

NextScan ==
    \/ ApplyGetNextTask("worker-1")
    \/ \E t \in Tasks : ApplyGetTaskStatus("worker-2", t)

SpecScan == InitScan /\ [][NextScan]_vars

\* the indexes of the listed tasks that qualify: no dependencies, or a
\* detail answer that holds the task and shows every dependency closed
Qualifying(list, show) ==
    {i \in 1..Len(list.tasks) :
        \/ list.tasks[i].dependency_count = 0
        \/ /\ list.tasks[i].id \in Tasks
           /\ show[list.tasks[i].id].kind = "array"
           /\ show[list.tasks[i].id].dependencies \subseteq {"closed"}}

FirstQualifying(list, show) ==
    CHOOSE i \in Qualifying(list, show) : \A j \in Qualifying(list, show) : i <= j

\* C11: get_next_task returns the first listed task that has no
\* dependencies or whose detail shows all dependencies closed, skipping the
\* candidates whose detail query fails or cannot be read; it returns None
\* when the list command fails, prints no JSON or nothing, or no task
\* qualifies.
C11_ReturnsFirstQualifying ==
    pc["worker-1"] \in {"found", "nothing"}
        => IF answers.list.kind = "tasks" /\ Qualifying(answers.list, answers.show) # {}
           THEN /\ pc["worker-1"] = "found"
                /\ task_id["worker-1"]
                     = answers.list.tasks[FirstQualifying(answers.list, answers.show)].id
           ELSE /\ pc["worker-1"] = "nothing"
                /\ task_id["worker-1"] = NoTask

\* C11 witness: the second listed task was returned after its detail query,
\* the first one having been skipped because its detail query failed.
C11_Witness ==
    /\ pc["worker-1"] = "found"
    /\ answers.list.kind = "tasks"
    /\ Len(answers.list.tasks) >= 2
    /\ answers.list.tasks[1].dependency_count = 1
    /\ answers.list.tasks[1].id \in Tasks
    /\ answers.show[answers.list.tasks[1].id].kind = "fail"
    /\ answers.list.tasks[2].dependency_count = 1
    /\ task_id["worker-1"] = answers.list.tasks[2].id
    /\ answers.list.tasks[2].id # answers.list.tasks[1].id

\* ------------------- SpecTree: the methods of WorktreeManager alone

Keys == {Key(w, t) : w \in Workers, t \in Tasks}

MaxTreeCalls == 4

Callable(w, limit) ==
    /\ pc[w] \in {"start", "created", "create_raised", "removed", "remove_raised"}
    /\ Len(before.log) < limit

\* the record of a call: op(worker_id, t, force), which raised or returned
Called(force, op, t, raised) ==
    [git |-> GitResult(wtDir, wtTracked, branches, wtWork, FALSE), force |-> force,
     log |-> Append(before.log, [op |-> op, t |-> t, raised |-> raised]),
     cleaned |-> {}, pruned |-> FALSE]

\* A caller calls create_worktree(worker_id, t, force=force) in some state
\* of the repository; the call returns or raises WorktreeError.
CallCreateWorktree(w, t, force, limit) ==
    /\ Callable(w, limit)
    /\ task_id' = [task_id EXCEPT ![w] = t]
    /\ \E r \in create_worktree(wtDir, wtTracked, branches, wtWork, worker_ids[w], t, force) :
          /\ SetGit(r)
          /\ before' = Called(force, "create", t, r.raised)
          /\ pc' = [pc EXCEPT ![w] = IF r.raised THEN "create_raised" ELSE "created"]
    /\ UNCHANGED <<trackerVars, regVars, merged, sessions, requested, loopLocal, lockVars,
                   answers, worker_ids, driver, daemon>>

\* A caller calls remove_worktree(worker_id, t, force=force).
CallRemoveWorktree(w, t, force, limit) ==
    /\ Callable(w, limit)
    /\ task_id' = [task_id EXCEPT ![w] = t]
    /\ \E r \in remove_worktree(wtDir, wtTracked, branches, wtWork, worker_ids[w], t, force) :
          /\ SetGit(r)
          /\ before' = Called(force, "remove", t, r.raised)
          /\ pc' = [pc EXCEPT ![w] = IF r.raised THEN "remove_raised" ELSE "removed"]
    /\ UNCHANGED <<trackerVars, regVars, merged, sessions, requested, loopLocal, lockVars,
                   answers, worker_ids, driver, daemon>>

\* A caller calls cleanup_stale_worktrees().
CallCleanup(w) ==
    /\ pc[w] = "start"
    /\ \E r \in cleanup_stale_worktrees(wtDir, wtTracked) :
          /\ wtTracked' = r.wtTracked
          /\ before' = [Called(TRUE, "cleanup", NoTask, FALSE)
                           EXCEPT !.cleaned = r.cleaned, !.pruned = r.pruned]
    /\ pc' = [pc EXCEPT ![w] = "cleaned"]
    /\ UNCHANGED <<task_id, trackerVars, regVars, wtDir, wtWork, branches, merged, sessions,
                   requested, loopLocal, lockVars, answers, worker_ids, driver, daemon>>

\* the states of the repository the call can find: worktree directories,
\* with or without an agent's files, tracked or not, and task branches
InitTree ==
    /\ pc = [w \in Workers |-> "start"]
    /\ tstatus = [t \in Tasks |-> "open"]
    /\ tdeps = [t \in Tasks |-> {}]
    /\ regFile = InitRegistry
    /\ wtDir \in SUBSET Keys
    /\ wtTracked \in SUBSET Keys
    /\ branches \in SUBSET Tasks
    /\ wtWork \in SUBSET wtDir
    /\ merged = {}
    /\ answers = NoAnswers
    /\ worker_ids = DefaultIds /\ driver = NoDriver
    /\ before = NoCall
    /\ InitCommon

NextTree ==
    \E t \in Tasks, force \in BOOLEAN :
        \/ CallCreateWorktree("worker-1", t, force, 1)
        \/ CallRemoveWorktree("worker-1", t, force, 1)

SpecTree == InitTree /\ [][NextTree]_vars

\* ------------------- SpecCycle: create and remove, call after call

\* worker-1 has no worktree; worker-2 may have one for t2, and the branch
\* of t2 may exist
InitCycle ==
    /\ pc = [w \in Workers |-> "start"]
    /\ tstatus = [t \in Tasks |-> "open"]
    /\ tdeps = [t \in Tasks |-> {}]
    /\ regFile = InitRegistry
    /\ wtDir \in SUBSET {Key("worker-2", "t2")}
    /\ wtTracked = wtDir
    /\ branches \in SUBSET {"t2"}
    /\ wtWork = {}
    /\ merged = {}
    /\ answers = NoAnswers
    /\ worker_ids = DefaultIds /\ driver = NoDriver
    /\ before = NoCall
    /\ InitCommon

NextCycle ==
    \E t \in Tasks, force \in BOOLEAN :
        \/ CallCreateWorktree("worker-1", t, force, MaxTreeCalls)
        \/ CallRemoveWorktree("worker-1", t, force, MaxTreeCalls)

SpecCycle == InitCycle /\ [][NextCycle]_vars

\* ------------------- SpecClean: cleanup_stale_worktrees alone

\* the main worktree is there; worktrees under worktrees/ and one outside
\* are tracked or not, and their directories exist or not
InitClean ==
    /\ pc = [w \in Workers |-> "start"]
    /\ tstatus = [t \in Tasks |-> "open"]
    /\ tdeps = [t \in Tasks |-> {}]
    /\ regFile = InitRegistry
    /\ \E d \in SUBSET (Keys \cup {OutsidePath}) : wtDir = d \cup {MainPath}
    /\ \E g \in SUBSET (Keys \cup {OutsidePath}) : wtTracked = g \cup {MainPath}
    /\ branches = {}
    /\ wtWork = {}
    /\ merged = {}
    /\ answers = NoAnswers
    /\ worker_ids = DefaultIds /\ driver = NoDriver
    /\ before = NoCall
    /\ InitCommon

NextClean == CallCleanup("worker-1")

SpecClean == InitClean /\ [][NextClean]_vars

\* ------------------- SpecPath: two serial workers with ids of their own

\* hive work --worker-id <id>: the ids two workers were started with, and
\* the ids of the tasks the tracker hands them
PathWorkerIds == {"w", "w-a"}
PathTasks == {"a-b", "b"}

InitPath ==
    /\ pc = [w \in Workers |-> "start"]
    /\ tstatus = [t \in Tasks |-> "open"]
    /\ tdeps = [t \in Tasks |-> {}]
    /\ regFile = InitRegistry
    /\ InitGit
    /\ answers = NoAnswers
    /\ driver = NoDriver
    /\ worker_ids \in {f \in [Workers -> PathWorkerIds] : \A v, w \in Workers : v # w => f[v] # f[w]}
    /\ before = NoCall
    /\ InitCommon

\* each worker makes the worktree of a task it holds, forced or not, and
\* removes what it takes for its stale worktree (work.py 292-293)
NextPath ==
    \E w \in Workers, t \in PathTasks :
        \/ \E force \in BOOLEAN : CallCreateWorktree(w, t, force, MaxTreeCalls)
        \/ CallRemoveWorktree(w, t, TRUE, MaxTreeCalls)

SpecPath == InitPath /\ [][NextPath]_vars

\* ------------------- SpecStale: the loop after a crash

\* One worker and two open tasks as in InitSolo; an earlier run of worker-1
\* on t1 left its worktree directory, its tracking or its branch behind.
InitStale ==
    /\ pc = [w \in Workers |-> "start"]
    /\ tstatus = [t \in Tasks |-> "open"]
    /\ tdeps = [t \in Tasks |-> IF t = "t2" THEN {"t1"} ELSE {}]
    /\ regFile = InitRegistry
    /\ wtDir \in SUBSET {Key("worker-1", "t1")}
    /\ wtTracked \in SUBSET {Key("worker-1", "t1")}
    /\ branches \in SUBSET {"t1"}
    /\ wtWork \in SUBSET wtDir
    /\ merged = {}
    /\ answers = NoAnswers
    /\ worker_ids = DefaultIds /\ driver = NoDriver
    /\ before = NoCall
    /\ InitCommon

SpecStale == InitStale /\ [][NextSolo]_vars

\* C20: create_worktree without force raises WorktreeError when the
\* worktree directory exists and leaves directories, files, tracking and
\* branches as they were; with force, a call that returns has removed the
\* old directory with its files and made a new worktree and branch.
C20_CreateWorktreeForce ==
    \A w \in Workers :
        pc[w] \in {"created", "create_raised"}
            => LET k == Key(w, task_id[w])
               IN  /\ (~before.force /\ k \in before.git.wtDir)
                        => /\ pc[w] = "create_raised"
                           /\ GitResult(wtDir, wtTracked, branches, wtWork, FALSE) = before.git
                   /\ (before.force /\ pc[w] = "created")
                        => /\ k \in wtDir /\ k \in wtTracked
                           /\ task_id[w] \in branches
                           /\ k \notin wtWork
                           /\ wtDir \ {k} = before.git.wtDir \ {k}
                           /\ wtWork \ {k} = before.git.wtWork \ {k}

\* C20 witness: a forced call returned where a worktree with an agent's
\* files was; the files are gone.
C20_Witness ==
    \E w \in Workers :
        /\ pc[w] = "created" /\ before.force
        /\ Key(w, task_id[w]) \in before.git.wtWork
        /\ Key(w, task_id[w]) \in wtDir
        /\ Key(w, task_id[w]) \notin wtWork

C22_RemoveLeavesNothing ==
    \A w \in Workers :
        LET k == Key(w, task_id[w])
        IN  /\ pc[w] = "removed"
                  => /\ k \notin wtDir
                     /\ k \notin wtTracked
                     /\ task_id[w] \notin branches
            /\ (pc[w] = "remove_raised") => k \in before.git.wtDir

\* C23: when an iteration comes to provision the worktree of a task for
\* which an earlier run of the same worker left the directory, or left the
\* tracking and the branch without the directory, the provisioning can
\* succeed: the stale state is removed and the worktree is created.
C23_StaleStateIsPruned ==
    \A w \in Workers :
        LET k == Key(w, task_id[w])
        IN  (/\ pc[w] = "provision"
             /\ \/ k \in wtDir
                \/ k \in wtTracked /\ task_id[w] \in branches)
                => ENABLED (Provision(w) /\ pc'[w] = "context")

\* C24: two workers with different ids never hold worktrees at the same
\* path, and the worktree a worker made stays in place whatever the other
\* worker creates or removes.
C24_WorkspacesAreDisjoint ==
    \A v, w \in Workers :
        (v # w /\ pc[w] = "created")
            => /\ worktree_exists(wtDir, worker_ids[w], task_id[w])
               /\ pc[v] = "created"
                     => Key(worker_ids[v], task_id[v]) # Key(worker_ids[w], task_id[w])

\* C25: cleanup_stale_worktrees returns exactly the tracked worktrees under
\* worktrees/ whose directory is missing, and afterwards git tracks none of
\* them; when there is none it returns the empty list and changes nothing;
\* the main worktree and a worktree outside worktrees/ stay as they were.
C25_CleanupReturnsStale ==
    \A w \in Workers :
        pc[w] = "cleaned"
            => LET stale == {k \in before.git.wtTracked \cap Keys : k \notin before.git.wtDir}
               IN  /\ before.cleaned = stale
                   /\ wtTracked \cap stale = {}
                   /\ stale = {} => wtTracked = before.git.wtTracked
                   /\ wtTracked \ Keys = before.git.wtTracked \ Keys
                   /\ wtDir = before.git.wtDir

\* C26: cleanup_stale_worktrees returns whatever step fails, and it has run
\* the final git worktree prune when it returns.
C26_CleanupAlwaysPrunes ==
    \A w \in Workers : pc[w] = "cleaned" => before.pruned

\* C29: get_task_status returns for every answer of bd show: the status of
\* the task when the answer is the task as one JSON object, and "unknown"
\* when the command failed, printed no JSON, or printed a JSON array.
C29_StatusNeverRaises ==
    \A w \in Workers :
        pc[w] \in {"status_returned", "raised"}
            => /\ pc[w] = "status_returned"
               /\ current_status[w] = IF answers.show[task_id[w]].kind = "object"
                                       THEN answers.show[task_id[w]].status
                                       ELSE "unknown"

\* C30: with --parallel N > 1 the processes started are worker-1, worker-2,
\* ... in this order, N of them at most, and no other worker runs; a
\* worker ends its loop only after an iteration returned False; "All
\* workers completed" is reported only when N processes were started and
\* every one of them has ended; with N = 1 no process is started and one
\* loop runs, in the calling process.
C30_DriverStartsAndJoins ==
    /\ \A i \in 1..Len(driver.processes) : driver.processes[i] = WorkerId(i)
    /\ Len(driver.processes) <= driver.parallel
    /\ \A w \in Workers :
          /\ pc[w] = "exited" => ~ret[w]
          /\ driver.parallel > 1
                => (pc[w] # "unstarted" <=> \E i \in 1..Len(driver.processes) : driver.processes[i] = w)
          /\ driver.parallel = 1
                => /\ driver.processes = <<>>
                   /\ pc[w] # "unstarted" => (w = WorkerId(1) /\ driver.pc = "serial")
    /\ driver.pc = "completed"
          => /\ Len(driver.processes) = driver.parallel
             /\ \A i \in 1..driver.parallel : pc[WorkerId(i)] \in {"exited", "raised"}

\* C30 witness: two workers were started, one of them merged the task, both
\* left their loops after an iteration that returned False, and the driver
\* has reported.
C30_Witness ==
    /\ driver.pc = "completed" /\ driver.parallel = 2
    /\ driver.processes = <<"worker-1", "worker-2">>
    /\ \A w \in Workers : pc[w] = "exited"
    /\ "t1" \in merged

C31_OnlyFailedOrBlocked ==
    \A w \in Workers : requested[w] \subseteq {"failed", "blocked"}

C31_ClaimStep ==
    \A w \in Workers :
        /\ (pc[w] = "claim" /\ pc'[w] = "provision")
              => /\ tstatus[task_id[w]] = "open"
                 /\ tstatus'[task_id[w]] = "in_progress"
        /\ (pc[w] # "claim" /\ pc'[w] \in HoldingPcs) => pc[w] \in HoldingPcs
        /\ (requested'[w] # requested[w] /\ requested'[w] # {})
              => /\ pc[w] \in HoldingPcs
                 /\ task_id'[w] = task_id[w]

\* C31: the statuses a worker asks the tracker to set are failed and blocked
\* only; it asks only between its own successful claim of the task (the
\* step that moved the task from open to in_progress) and the end of that
\* iteration, and for the task it claimed.
C31_RequestsOnlyAfterClaim == [](C31_OnlyFailedOrBlocked) /\ [][C31_ClaimStep]_vars

\* C31 witness: one worker has asked for blocked on the task it claimed
\* while the other, whose claim of the same task failed, has asked for
\* nothing.
C31_Witness ==
    \E v, w \in Workers :
        /\ v # w
        /\ requested[w] = {"blocked"} /\ task_id[w] = "t1"
        /\ pc[v] = "claim_failed" /\ task_id[v] = "t1" /\ requested[v] = {}

C33_FailureStep ==
    \A w \in Workers :
        LET quiet == /\ "failed" \in requested'[w]
                     /\ sessions' = sessions /\ ~spawned'[w]
                     /\ regFile' = regFile
        IN  /\ (pc[w] \in {"claim", "provision", "context"} /\ pc'[w] # pc[w])
                  => /\ sessions' = sessions /\ ~spawned'[w]
                     /\ regFile' = regFile
            /\ (pc[w] = "provision" /\ pc'[w] \notin {"provision", "context"})
                  => /\ pc'[w] = "returned" /\ ret'[w]
                     /\ quiet
            /\ (pc[w] = "context" /\ pc'[w] = "returned")
                  => /\ ret'[w]
                     /\ quiet
                     /\ worktree_exists(wtDir, w, task_id[w])
                     /\ ~worktree_exists(wtDir', w, task_id[w])
            /\ (pc[w] = "context" /\ pc'[w] \notin {"context", "spawn", "returned"})
                  => pc'[w] = "raised" /\ quiet

C36_QuietStep ==
    \A w \in Workers :
        (pc[w] \in {"start", "no_task", "claim", "claim_failed"} /\ pc'[w] # pc[w])
            => /\ <<wtDir, wtTracked, branches, wtWork, merged>>' =
                    <<wtDir, wtTracked, branches, wtWork, merged>>
               /\ sessions' = sessions
               /\ regFile' = regFile
               /\ requested'[w] = {}
               /\ pc'[w] # "provision" => tstatus' = tstatus
               /\ pc'[w] = "returned"
                     => ret'[w] = (pc[w] = "claim_failed")

\* C36: the steps of an iteration up to its return at NO_TASK (False) or at
\* CLAIM_FAILED (True) change no worktree and no branch, no session and
\* not the registry file, ask the tracker for no status, and, the
\* successful claim apart, leave the tracker as it is.
C36_NoTaskAndClaimFailedChangeNothing == [][C36_QuietStep]_vars

\* C36 witness: one worker returned False for want of a task while the
\* other supervises its agent: worktree, session and record are in place.
C36_Witness ==
    \E v, w \in Workers :
        /\ pc[w] = "returned" /\ ~ret[w] /\ requested[w] = {}
        /\ pc[v] = "poll"
        /\ Key(v, task_id[v]) \in wtDir /\ Key(v, task_id[v]) \in sessions
        /\ HasRecord(regFile, v)


\* ---- two workers whose agents both finished: merge_branch in one directory ----

\* Both workers are at the end of the poll loop of ralph_loop_iteration
\* (line 442) with the result "done": worker-1 on t1 and worker-2 on t2.
InitMerge ==
    /\ pc = [w \in Workers |-> "cleanup"]
    /\ task_id = [w \in Workers |-> IF w = "worker-1" THEN "t1" ELSE "t2"]
    /\ tstatus = [t \in Tasks |-> "done"]
    /\ tdeps = [t \in Tasks |-> {}]
    /\ regFile = JsonFile([workers |-> <<worker_entry("worker-1", "t1", 1),
                                         worker_entry("worker-2", "t2", 1)>>,
                           last_updated |-> 1])
    /\ regData = [w \in Workers |-> FreshData]
    /\ clock = 1
    /\ expected = [w \in Workers |-> FALSE]
    /\ opsDone = [w \in Workers |-> 0]
    /\ readKind = [r \in Readers |-> "none"]
    /\ wtDir = {Key("worker-1", "t1"), Key("worker-2", "t2")}
    /\ wtTracked = wtDir
    /\ wtWork \in SUBSET wtDir
    /\ branches = Tasks
    /\ merged = {}
    /\ sessions \in SUBSET wtDir
    /\ requested = [w \in Workers |-> {}]
    /\ outcome = [w \in Workers |-> "done"]
    /\ ret = [w \in Workers |-> TRUE]
    /\ elapsed = [w \in Workers |-> PollInterval]
    /\ spawned = [w \in Workers |-> TRUE]
    /\ supervised = [w \in Workers |-> TRUE]
    /\ killIssued = [w \in Workers |-> FALSE]
    /\ mergeOk = [w \in Workers |-> FALSE]
    /\ current_status = [w \in Workers |-> "done"]
    /\ calls = [w \in Workers |-> <<>>]
    /\ lkPath = 0
    /\ lkContent = [i \in Inodes |-> NoKeys]
    /\ lkFd = [w \in Workers |-> 0]
    /\ lkTemp = [w \in Workers |-> 0]
    /\ lkData = [w \in Workers |-> NoKeys]
    /\ lkDone = [w \in Workers |-> 0]
    /\ lkMode = [w \in Workers |-> "r+"]
    /\ lkPrior = [w \in Workers |-> NoPrior]
    /\ answers = NoAnswers
    /\ worker_ids = DefaultIds /\ driver = NoDriver /\ daemon = NoDaemon
    /\ before = NoCall

\* ralph_loop_iteration from line 448 to its return, for both workers
NextMerge ==
    \E w \in Workers :
        \/ CleanupAgent(w)
        \/ MergeCheckout(w)
        \/ MergeMerge(w)
        \/ HandleOutcome(w)
        \/ UnregisterRead(w, "iteration_end")
        \/ UnregisterOpen(w)
        \/ UnregisterDump(w, "iteration_end")
        \/ IterationEnd(w)

SpecMerge == InitMerge /\ [][NextMerge]_vars

\* C32: merges are not serialized. merge_branch takes no lock: a worker
\* that reached merge_branch can run git checkout main whatever the
\* other worker is doing, also while the other worker is between its
\* git checkout main and the end of its git merge in the same directory.
C32_MergesNotSerialized ==
    \A w \in Workers : pc[w] = "merge_checkout" => ENABLED MergeCheckout(w)

\* worker-2 is inside merge_branch and worker-1 arrives at it, or both
\* workers are inside merge_branch at the same time
C32_Witness ==
    /\ \A w \in Workers : pc[w] = "merge_merge"
    /\ task_id["worker-1"] # task_id["worker-2"]


\* ---- the daemon's check for stuck workers ----

\* --stuck-threshold, in ticks of the clock
StuckThreshold == 1

\* check_stuck_workers, lines 90-110: the records of get_workers that are
\* reported.  last_activity 0 stands for a record without the key (line
\* 95); the registry functions write the time of the call, which parses.
check_stuck_workers(file, now, stuck_threshold) ==
    SelectSeq(get_workers(file),
              LAMBDA worker : /\ worker.last_activity # 0
                              /\ now - worker.last_activity >= stuck_threshold)

\* The worker process ends between two calls of the registry functions,
\* after its register_worker returned and with no unregister_worker since.
Terminate(w) ==
    /\ pc[w] = "idle"
    /\ expected[w]
    /\ pc' = [pc EXCEPT ![w] = "dead"]
    /\ UNCHANGED <<task_id, trackerVars, loopVars, regVars, lockVars, answers, worker_ids,
                   driver, daemon, before>>

NextDaemon ==
    \/ NextReg
    \/ \E w \in Workers : Terminate(w)

SpecDaemon == InitReg /\ [][NextDaemon]_vars

C34_Reported(w, file, now) ==
    \E i \in 1..Len(check_stuck_workers(file, now, StuckThreshold)) :
        check_stuck_workers(file, now, StuckThreshold)[i].id = w

C34_Kept == \A w \in Workers : pc[w] = "dead" => HasRecord(regFile, w)

C34_StaysReported ==
    \A w \in Workers :
        (pc[w] = "dead" /\ C34_Reported(w, regFile, clock)) => C34_Reported(w, regFile', clock')

\* C34: check_stuck_workers reports exactly the records whose
\* last_activity is at least the threshold old, so a worker process that
\* ended after register_worker and before unregister_worker keeps its
\* record in the registry, and once a check reports it as stuck every
\* later check reports it too.
C34_DeadWorkerStaysReported == [](C34_Kept) /\ [][C34_StaysReported]_vars


\* ---- hive daemon start: the PID file ----

\* The content of .hive/daemon.pid: "none" (no file), "garbage" (text that
\* is no number), "gone" (the PID of a process that no longer runs), or
\* the name of the invocation that wrote its PID.

\* os.kill(pid, 0) succeeds: the process of an invocation that runs
\* daemon_loop
Alive(d) == {s \in Starters : d.pc[s] = "loop"}

\* get_daemon_pid, lines 24-41: what it returns ("none": None) and the
\* PID file it leaves
get_daemon_pid(pid_file, alive) ==
    IF pid_file = "none" THEN [pid |-> "none", pid_file |-> "none"]
    ELSE IF pid_file = "garbage" THEN [pid |-> "none", pid_file |-> "garbage"]
    ELSE IF pid_file \in alive THEN [pid |-> pid_file, pid_file |-> pid_file]
    ELSE [pid |-> "none", pid_file |-> "none"]

OutsideDaemon ==
    UNCHANGED <<pc, task_id, trackerVars, loopVars, regVars, lockVars, answers, worker_ids,
                driver, before>>

\* start_cmd, lines 183-187: is_daemon_running(), and sys.exit(1) when a
\* daemon runs
StartCheck(s) ==
    /\ daemon.pc[s] = "start"
    /\ LET got == get_daemon_pid(daemon.pid_file, Alive(daemon))
       IN  daemon' = [daemon EXCEPT
                         !.pid_file = got.pid_file,
                         !.pc[s] = IF got.pid # "none" THEN "exit1"
                                   ELSE IF daemon.foreground[s] THEN "write" ELSE "fork"]
    /\ OutsideDaemon

\* start_cmd, lines 198-215: the two forks; the grandchild goes on
StartFork(s) ==
    /\ daemon.pc[s] = "fork"
    /\ daemon' = [daemon EXCEPT !.pc[s] = "write"]
    /\ OutsideDaemon

\* start_cmd, lines 192 and 218: write_daemon_pid(os.getpid()), then
\* daemon_loop
StartWrite(s) ==
    /\ daemon.pc[s] = "write"
    /\ daemon' = [daemon EXCEPT !.pid_file = s, !.pc[s] = "loop"]
    /\ OutsideDaemon

\* daemon_loop, lines 155-157, and the finally of start_cmd (196, 239): a
\* KeyboardInterrupt ends the loop and remove_daemon_pid unlinks the file
LoopInterrupted(s) ==
    /\ daemon.pc[s] = "loop"
    /\ daemon' = [daemon EXCEPT !.pid_file = "none", !.pc[s] = "stopped"]
    /\ OutsideDaemon

\* the daemon process is killed: no finally runs, the PID file stays
LoopKilled(s) ==
    /\ daemon.pc[s] = "loop"
    /\ daemon' = [daemon EXCEPT !.pc[s] = "killed"]
    /\ OutsideDaemon

\* hive is initialized; a PID file may be left from an earlier daemon; two
\* invocations of hive daemon start, each with or without --foreground
InitStart ==
    /\ pc = [w \in Workers |-> "idle"]
    /\ tstatus = [t \in Tasks |-> "open"]
    /\ tdeps = [t \in Tasks |-> {}]
    /\ regFile = InitRegistry
    /\ task_id = [w \in Workers |-> NoTask]
    /\ regData = [w \in Workers |-> FreshData]
    /\ clock = 1
    /\ expected = [w \in Workers |-> FALSE]
    /\ opsDone = [w \in Workers |-> 0]
    /\ readKind = [r \in Readers |-> "none"]
    /\ sessions = {}
    /\ requested = [w \in Workers |-> {}]
    /\ outcome = [w \in Workers |-> "none"]
    /\ ret = [w \in Workers |-> TRUE]
    /\ elapsed = [w \in Workers |-> 0]
    /\ spawned = [w \in Workers |-> FALSE]
    /\ supervised = [w \in Workers |-> FALSE]
    /\ killIssued = [w \in Workers |-> FALSE]
    /\ mergeOk = [w \in Workers |-> FALSE]
    /\ current_status = [w \in Workers |-> "none"]
    /\ calls = [w \in Workers |-> <<>>]
    /\ lkPath = 0
    /\ lkContent = [i \in Inodes |-> NoKeys]
    /\ lkFd = [w \in Workers |-> 0]
    /\ lkTemp = [w \in Workers |-> 0]
    /\ lkData = [w \in Workers |-> NoKeys]
    /\ lkDone = [w \in Workers |-> 0]
    /\ lkMode = [w \in Workers |-> "r+"]
    /\ lkPrior = [w \in Workers |-> NoPrior]
    /\ InitGit
    /\ answers = NoAnswers /\ before = NoCall
    /\ worker_ids = DefaultIds /\ driver = NoDriver
    /\ \E file \in {"none", "garbage", "gone"}, foreground \in [Starters -> BOOLEAN] :
          daemon = [pid_file |-> file, pc |-> [s \in Starters |-> "start"],
                    foreground |-> foreground]

NextStart ==
    \E s \in Starters :
        \/ StartCheck(s)
        \/ StartFork(s)
        \/ StartWrite(s)
        \/ LoopInterrupted(s)
        \/ LoopKilled(s)

SpecStart == InitStart /\ [][NextStart]_vars

C35_OneLoop == Cardinality(Alive(daemon)) <= 1

C35_CheckStep ==
    \A s \in Starters :
        (daemon.pc[s] = "start" /\ daemon'.pc[s] # "start")
            => /\ daemon.pid_file \in Alive(daemon) => daemon'.pc[s] = "exit1"
               /\ daemon.pid_file = "gone"
                     => daemon'.pid_file = "none" /\ daemon'.pc[s] # "exit1"

\* C35: the PID file is a single-instance guard: in every interleaving of
\* hive daemon start invocations at most one daemon loop runs at a time;
\* a start that finds the PID of a live process in the file exits with
\* code 1 without starting a loop, and a file with the PID of a dead
\* process counts as not running and is removed.
C35_PidFileGuardsSingleInstance == [](C35_OneLoop) /\ [][C35_CheckStep]_vars


\* ---- a task whose branch another worker made ----

\* worker-2 made the branch of t1 in an earlier iteration and may have kept
\* its worktree (a blocked task or a failed merge); t1 is open again and
\* worker-1 runs the loop.
InitShare ==
    /\ pc = [w \in Workers |-> "start"]
    /\ tstatus = [t \in Tasks |-> "open"]
    /\ tdeps = [t \in Tasks |-> {}]
    /\ regFile = InitRegistry
    /\ wtDir \in SUBSET {Key("worker-2", "t1")}
    /\ wtTracked = wtDir
    /\ branches = {"t1"}
    /\ wtWork \in SUBSET wtDir
    /\ merged = {}
    /\ answers = NoAnswers
    /\ worker_ids = DefaultIds /\ driver = NoDriver
    /\ before = NoCall
    /\ InitCommon

SpecShare == InitShare /\ [][NextSolo]_vars

C37_OnePerTask ==
    \A t \in Tasks : Cardinality({w \in Workers : Key(w, t) \in wtTracked}) <= 1

C37_ProvisionStep ==
    \A b \in Workers :
        (/\ pc[b] = "provision" /\ pc'[b] # "provision"
         /\ task_id[b] \in branches
         /\ ~worktree_exists(wtDir, b, task_id[b]))
            => /\ pc'[b] = "returned" /\ ret'[b]
               /\ "failed" \in requested'[b]
               /\ gitVars' = gitVars

\* C37: the branch task-<task_id> depends only on the task id, so git
\* tracks at most one worktree per task across the workers: create_worktree
\* of a worker that has no directory for the task raises WorktreeError
\* while the branch of the task exists, with or without the worktree of the
\* worker that made it; the failed create changes nothing in the
\* repository, and the iteration asks for the status failed and returns
\* True.
C37_OneWorkspacePerTask == [](C37_OnePerTask) /\ [][C37_ProvisionStep]_vars

\* C37 witness: worker-1 returned from an iteration on t1 that asked for
\* failed and started nothing, while worker-2's worktree of t1 is tracked
\* and worker-1 has none.
C37_Witness ==
    /\ pc["worker-1"] = "returned" /\ ret["worker-1"]
    /\ task_id["worker-1"] = "t1"
    /\ requested["worker-1"] = {"failed"} /\ ~spawned["worker-1"]
    /\ Key("worker-2", "t1") \in wtTracked
    /\ Key("worker-1", "t1") \notin wtDir \cup wtTracked


C38_PollStep ==
    \A w \in Workers :
        /\ (pc[w] = "poll_status" /\ pc'[w] # "poll_status")
              => \/ /\ pc'[w] = "cleanup"
                    /\ current_status'[w] \in {"done", "too_big", "blocked", "failed"}
                    /\ outcome'[w] = current_status'[w]
                 \/ /\ pc'[w] = "poll"
                    /\ current_status'[w] \in {"closed", "open", "in_progress", "unknown"}
                    /\ outcome'[w] = outcome[w]
                 \/ pc'[w] = "raised"
        /\ (pc[w] = "poll" /\ pc'[w] # "poll" /\ timed_out(elapsed[w]))
              => /\ pc'[w] = "cleanup" /\ outcome'[w] = "timeout"
                 /\ "failed" \in requested'[w]
        /\ (pc[w] = "cleanup" /\ pc'[w] # "cleanup" /\ outcome[w] = "timeout")
              => pc'[w] = "handle" /\ GitCalls(calls'[w]) = <<>>
        /\ (pc[w] = "handle" /\ pc'[w] # "handle" /\ outcome[w] = "timeout")
              => /\ GitCalls(calls'[w]) = <<>> /\ merged' = merged
                 /\ \/ pc'[w] = "raised"
                    \/ ~worktree_exists(wtDir', w, task_id[w])

InitRaise ==
    /\ pc = [w \in Workers |-> "lk_enter"]
    /\ tstatus = [t \in Tasks |-> "open"]
    /\ tdeps = [t \in Tasks |-> {}]
    /\ regFile = InitRegistry
    /\ task_id = [w \in Workers |-> NoTask]
    /\ regData = [w \in Workers |-> FreshData]
    /\ clock = 1
    /\ expected = [w \in Workers |-> FALSE]
    /\ opsDone = [w \in Workers |-> 0]
    /\ readKind = [r \in Readers |-> "none"]
    /\ sessions = {}
    /\ requested = [w \in Workers |-> {}]
    /\ outcome = [w \in Workers |-> "none"]
    /\ ret = [w \in Workers |-> TRUE]
    /\ elapsed = [w \in Workers |-> 0]
    /\ spawned = [w \in Workers |-> FALSE]
    /\ supervised = [w \in Workers |-> FALSE]
    /\ killIssued = [w \in Workers |-> FALSE]
    /\ mergeOk = [w \in Workers |-> FALSE]
    /\ current_status = [w \in Workers |-> "none"]
    /\ calls = [w \in Workers |-> <<>>]
    /\ lkPath \in {0, 1}
    /\ lkContent = [i \in Inodes |-> IF i = lkPath THEN [w \in Workers |-> Iterations] ELSE NoKeys]
    /\ lkFd = [w \in Workers |-> 0]
    /\ lkTemp = [w \in Workers |-> 0]
    /\ lkData = [w \in Workers |-> NoKeys]
    /\ lkDone = [w \in Workers |-> 0]
    /\ lkMode \in [Workers -> {"w", "r+"}]
    /\ lkPrior = [w \in Workers |-> NoPrior]
    /\ InitGit
    /\ answers = NoAnswers /\ before = NoCall
    /\ worker_ids = DefaultIds /\ driver = NoDriver /\ daemon = NoDaemon

\* no other writer is inside a block
Alone(w) == \A v \in Workers \ {w} : pc[v] \in {"lk_enter", "lk_done", "lk_raised"}

\* the blocks run one after the other
NextRaise ==
    \/ \E w \in Workers : Alone(w) /\ LkEnter(w)
    \/ \E w \in Workers : Alone(w) /\ LkCreate(w)
    \/ \E w \in Workers : Alone(w) /\ LkOpen(w)
    \/ \E w \in Workers : Alone(w) /\ LkFlock(w)
    \/ \E w \in Workers : Alone(w) /\ LkBody(w)
    \/ \E w \in Workers : Alone(w) /\ LkRaise(w)
    \/ \E w \in Workers : Alone(w) /\ LkTemp(w)
    \/ \E w \in Workers : Alone(w) /\ LkTempFails(w)
    \/ \E w \in Workers : Alone(w) /\ LkReplace(w)
    \/ \E w \in Workers : Alone(w) /\ LkUnlock(w)

SpecRaise == InitRaise /\ [][NextRaise]_vars

C39_RaiseStep ==
    \A w \in Workers :
        (pc'[w] = "lk_raised" /\ pc[w] # "lk_raised")
            => /\ lkTemp'[w] = 0
               /\ lkFd'[w] = 0
               /\ lkPrior[w].exists
                     => lkPath' # 0 /\ lkContent'[lkPath'] = lkPrior[w].content

\* C39: when the body of a with locked_json_file(path, mode) block raises,
\* or the write of the temp file fails, then for mode "w" and for mode
\* "r+" the file at the path has the content it had when the block was
\* entered, no temp file is left, the lock is released and the file
\* closed, and the exception reaches the caller.
C39_FailedBlockKeepsFile == [][C39_RaiseStep]_vars

C40_OneHolder ==
    \A w \in Workers, v \in Workers : (w # v /\ HoldsLock(w)) => ~HoldsLock(v)

C40_ChangeStep ==
    (lkPath' # lkPath \/ (lkPath # 0 /\ lkContent'[lkPath] # lkContent[lkPath]))
        => \E w \in Workers : HoldsLock(w) /\ lkFd[w] = lkPath /\ pc'[w] # pc[w]

\* C40: a writer changes what is visible at the path only while it holds
\* the exclusive lock on the file that is at the path: the file is not
\* created, truncated or replaced before the lock is taken or after it is
\* released, and no two writers hold an exclusive lock for the path at
\* the same time, also across the rename that replaces the locked file.
C40_WritesOnlyUnderLock == [](C40_OneHolder) /\ [][C40_ChangeStep]_vars

====
